---- MODULE Spec2Model ----
(***************************************************************************)
(* Model of the build-plan resolver of vivliostyle-cli                     *)
(* (src/src/config/resolve.ts): resolveTaskConfig and the functions it     *)
(* calls (parseTheme, parseFileMetadata, composeSingleInputConfig,         *)
(* composeProjectConfig and its parseEntry), and of the build command's    *)
(* -o/-f option parser (setupBuildParserProgram, inferenceTargetsOption).  *)
(*                                                                         *)
(* Values.  An optional value (undefined | v) is a sequence of length at   *)
(* most one: <<>> is undefined, <<v>> is v.  A file name is a record       *)
(* [pre, stem, ext] standing for the string pre + stem + "." + ext (no dot *)
(* when ext is empty); an absolute path is the sequence of its segments    *)
(* below the root; a path as a user writes it is a record [abs, up, segs]  *)
(* (absolute or not, leading "..", segments).                              *)
(***************************************************************************)
EXTENDS Integers, Sequences, FiniteSets, TLC

VARIABLES
    config,     \* the project description object given to resolveTaskConfig
    options,    \* the inline (CLI) options given to resolveTaskConfig
    fs,         \* the files that exist on disk (absolute paths)
    now,        \* the value Date.now() returns
    runs,       \* runs[r]: what resolution r returned, or that it has not run
    touched,    \* touched[r]: the files resolution r created
    warned,     \* warned[r]: the warnings resolution r logged
    pkgJson,    \* the package.json of the entry-context directory, if any
    argv,       \* the -o and -f options of the build command line, in order
    consumed,   \* how many of them the command parser has processed
    targets,    \* the targets array the two option processors share
    option,     \* the parsed flags: which of output/format are set, and targets
    disk,       \* the files a build reads and writes, with their data
    build       \* the build under way: its job, its step and its local values

resolveVars == <<config, options, fs, now, runs, touched, warned, pkgJson>>
cliVars == <<argv, consumed, targets, option>>
buildVars == <<disk, build>>
vars == <<config, options, fs, now, runs, touched, warned, pkgJson,
          argv, consumed, targets, option, disk, build>>

-----------------------------------------------------------------------------
(* Bounds of the model *)

\* the clock takes the values 0..MaxClock
MaxClock == 1
\* a project declares at most MaxEntries entries
MaxEntries == 2
\* a command line holds at most MaxArgs -o and -f options
MaxArgs == 3

\* the same project is resolved twice
Runs == {"first", "second"}

-----------------------------------------------------------------------------
(* Optional values *)

None == <<>>
Some(v) == <<v>>
IsSome(o) == o # <<>>
Get(o) == o[1]
\* a ?? b
OrElse(o, d) == IF o # <<>> THEN o[1] ELSE d
\* a ?? b where b is optional too
OrOpt(o, p) == IF o # <<>> THEN o ELSE p
\* a || b on optional strings: undefined and "" are falsy
Truthy(o) == o # <<>> /\ o[1] # ""
OrFalsy(o, p) == IF Truthy(o) THEN o ELSE p

Max(a, b) == IF a >= b THEN a ELSE b
Min(a, b) == IF a <= b THEN a ELSE b
\* `const v = ...`: a value computed once and named in what follows
With(v, body(_)) == body(v)

SeqToSet(s) == {s[i] : i \in 1..Len(s)}

-----------------------------------------------------------------------------
(* File names and paths (upath) *)

Seg(stem, ext) == [pre |-> "", stem |-> stem, ext |-> ext]
Dir(name) == Seg(name, "")

\* the string a file name stands for
NameStr(seg) == seg.pre \o seg.stem \o (IF seg.ext = "" THEN "" ELSE "." \o seg.ext)

\* `${prefix}${name}`
WithPrefix(prefix, seg) == [seg EXCEPT !.pre = prefix \o seg.pre]

\* name.replace(/\.md$/, '.html')
ReplaceMdSeg(seg) == IF seg.ext = "md" THEN [seg EXCEPT !.ext = "html"] ELSE seg

Rel(segs) == [abs |-> FALSE, up |-> 0, segs |-> segs]
UpRel(n, segs) == [abs |-> FALSE, up |-> n, segs |-> segs]
AbsP(segs) == [abs |-> TRUE, up |-> 0, segs |-> segs]

DropLast(p, n) == SubSeq(p, 1, Max(0, Len(p) - n))

\* upath.resolve(base, p): an absolute p wins, a relative one is applied to base
Resolve(base, p) == IF p.abs THEN p.segs ELSE DropLast(base, p.up) \o p.segs

\* upath.dirname, upath.basename of an absolute path of at least one segment
Dirname(p) == DropLast(p, 1)
Basename(p) == p[Len(p)]

CommonLen(a, b) ==
    LET m == Min(Len(a), Len(b))
        same == {k \in 0..m : \A i \in 1..k : a[i] = b[i]}
    IN  CHOOSE k \in same : \A j \in same : j <= k

\* upath.relative(from, to) of two absolute paths
Relative(from, to) ==
    LET k == CommonLen(from, to)
    IN  UpRel(Len(from) - k, SubSeq(to, k + 1, Len(to)))

\* str.replace(/\.md$/, '.html') on a path string: only the last segment can match
ReplaceMdRel(p) ==
    IF p.segs = <<>> THEN p
    ELSE [p EXCEPT !.segs[Len(p.segs)] = ReplaceMdSeg(p.segs[Len(p.segs)])]
ReplaceMdAbs(p) ==
    IF p = <<>> THEN p ELSE [p EXCEPT ![Len(p)] = ReplaceMdSeg(p[Len(p)])]

\* the string of an absolute path
RECURSIVE PathString(_)
PathString(p) == IF p = <<>> THEN "" ELSE "/" \o NameStr(Head(p)) \o PathString(Tail(p))

\* util.pathEquals(a, b): upath.relative(a, b) === ''
pathEquals(a, b) == LET r == Relative(a, b) IN r.up = 0 /\ r.segs = <<>>

-----------------------------------------------------------------------------
(* The directories and files of the modelled project *)

\* options.cwd ?? defaultCwd
Context == <<Dir("proj")>>

AMd == Context \o <<Seg("a", "md")>>
TMd == Context \o <<Seg("t", "md")>>
BHtml == Context \o <<Seg("b", "html")>>
ImgPng == Context \o <<Seg("img", "png")>>
ThemeCss == Context \o <<Seg("theme", "css")>>
SMd == Context \o <<Dir("src"), Seg("s", "md")>>
\* a theme package kept in the project: mytheme/package.json names it
MyThemeDir == Context \o <<Dir("mytheme")>>
MyThemePkgJson == MyThemeDir \o <<Seg("package", "json")>>

\* the files that exist before any resolution
InitialFiles == {AMd, TMd, BHtml, ImgPng, ThemeCss, SMd, MyThemePkgJson}

\* JSON.parse(fs.readFileSync(pkgJsonPath)).name
PackageJsonName(p) == IF p = MyThemePkgJson THEN Some("my-theme") ELSE None

\* mime-types lookup(path): by extension, false (here "false") when unknown
mime(p) ==
    LET ext == Basename(p).ext
    IN  CASE ext = "md" -> "text/markdown"
          [] ext \in {"html", "htm"} -> "text/html"
          [] ext = "xhtml" -> "application/xhtml+xml"
          [] ext = "png" -> "image/png"
          [] ext = "css" -> "text/css"
          [] ext = "json" -> "application/json"
          [] OTHER -> "false"

manuscriptMediaTypes == {"text/markdown", "text/html", "application/xhtml+xml"}

isManuscriptMediaType(mediaType) ==
    mediaType # "false" /\ mediaType \in manuscriptMediaTypes

\* What the files contain: t.md has front matter (a title and a theme), b.html
\* has a <title>; a.md and every staged placeholder have neither.
FrontMatterTitle(p) == IF p = TMd THEN Some("T") ELSE None
HtmlTitle(p) == IF p = BHtml THEN Some("B") ELSE None

-----------------------------------------------------------------------------
(* Theme references and parseTheme *)

\* a theme reference: a URL, a path-like specifier or a package specifier
UriRef == [kind |-> "uri", spec |-> "https://example.com/style.css",
           base |-> "style.css", path |-> Rel(<<>>)]
PathRef(p) == [kind |-> "path", spec |-> "", base |-> NameStr(p.segs[Len(p.segs)]),
               path |-> p]
PkgRef(name) == [kind |-> "pkg", spec |-> name, base |-> name, path |-> Rel(<<>>)]
\* a remote, non-registry specifier (npm-package-arg type "git")
GitRef == [kind |-> "git", spec |-> "github:user/theme", base |-> "theme",
           path |-> Rel(<<>>)]

\* a specifier npm-package-arg cannot parse
BadRef == [kind |-> "bad", spec |-> "@@bad//", base |-> "", path |-> Rel(<<>>)]

ThemeCssRef == PathRef(Rel(<<Seg("theme", "css")>>))
\* local directories: one with a package.json, one without
MyThemeRef == PathRef(Rel(<<Dir("mytheme")>>))
SrcDirRef == PathRef(Rel(<<Dir("src")>>))

\* the front matter of t.md declares theme: theme.css
FrontMatterTheme(p) == IF p = TMd THEN Some(<<ThemeCssRef>>) ELSE None

\* locations: a URL or a place on disk
UrlLoc(href) == [at |-> "url", href |-> href, path |-> <<>>]
FsLoc(p) == [at |-> "fs", href |-> "", path |-> p]

Ok(v) == [ok |-> TRUE, v |-> v]
Err(e) == [ok |-> FALSE, err |-> e]
Error(text, args) == [type |-> "error", text |-> text, args |-> args]

\* processor/theme parsePackageName: what npm-package-arg makes of a specifier
\* that is no URL and no existing .css file
parsePackageName(ref, context) ==
    CASE ref.kind = "pkg" ->
            Some([registry |-> TRUE, type |-> "range", name |-> Some(ref.spec),
                  fetchSpec |-> None])
      [] ref.kind = "git" ->
            Some([registry |-> FALSE, type |-> "git", name |-> None,
                  fetchSpec |-> None])
      [] ref.kind = "path" ->
            Some([registry |-> FALSE, type |-> "directory", name |-> None,
                  fetchSpec |-> Some(Resolve(context, ref.path))])
      [] OTHER -> None

\* isValidUri(specifier)
isValidUri(ref) == ref.kind = "uri"

\* the download sources parseTheme accepts: the npm registry or a local directory
allowedSourceAny(parsed) == TRUE
allowedSource(parsed) == parsed.registry \/ parsed.type = "directory"

\* parseTheme: the theme record, or the error thrown.  oid is the identity of
\* the object the call allocates: every call returns a new object.
parseTheme(oid, theme, context, workspaceDir, themesDir, files) ==
    IF isValidUri(theme)
    THEN Ok([oid |-> oid, type |-> "uri", name |-> theme.base,
             location |-> UrlLoc(theme.spec), source |-> <<>>,
             specifier |-> theme.spec])
    ELSE
    LET stylePath == Resolve(context, theme.path)
    IN  IF theme.kind = "path" /\ stylePath \in files /\ Basename(stylePath).ext = "css"
        THEN Ok([oid |-> oid, type |-> "file", name |-> theme.base,
                 location |-> FsLoc(Resolve(workspaceDir, Relative(context, stylePath))),
                 source |-> stylePath, specifier |-> ""])
        ELSE
        LET parsed == parsePackageName(theme, context)
        IN  IF parsed = None
            THEN Err(Error("Invalid package name: ${specifier}", <<theme.spec>>))
            ELSE IF ~allowedSource(Get(parsed))
            THEN Err(Error("This package specifier is not allowed: ${specifier}",
                           <<theme.spec>>))
            ELSE
            \* a local directory with a package.json takes its name from there
            \* and its fetchSpec as the specifier
            LET fetchSpec == Get(parsed).fetchSpec
                local == /\ Get(parsed).type = "directory"
                         /\ IsSome(fetchSpec)
                         /\ (Get(fetchSpec) \o <<Seg("package", "json")>>) \in files
                name == IF local
                        THEN PackageJsonName(Get(fetchSpec) \o <<Seg("package", "json")>>)
                        ELSE Get(parsed).name
                resolvedSpecifier == IF local THEN PathString(Get(fetchSpec))
                                     ELSE theme.spec
            IN  IF ~Truthy(name)
                THEN Err(Error("Could not determine the package name: ${specifier}",
                               <<theme.spec>>))
                ELSE Ok([oid |-> oid, type |-> "package", name |-> Get(name),
                         location |-> FsLoc(themesDir \o <<Dir("node_modules"),
                                                            Dir(Get(name))>>),
                         source |-> <<>>, specifier |-> resolvedSpecifier])

\* two theme records name the same theme when they agree on all but identity
SameTheme(t, u) ==
    /\ t.type = u.type /\ t.name = u.name /\ t.location = u.location
    /\ t.source = u.source /\ t.specifier = u.specifier

\* refs.map(parseTheme): the records in order, or the first error thrown;
\* the j-th call at site <<site, i>> allocates object <<site, i, j>>
parseThemes(site, i, refs, context, workspaceDir, themesDir, files) ==
    With([j \in 1..Len(refs) |->
            parseTheme(<<site, i, j>>, refs[j], context, workspaceDir,
                       themesDir, files)],
         LAMBDA res :
           LET bad == {j \in 1..Len(refs) : ~res[j].ok}
           IN  IF bad # {}
               THEN Err(res[CHOOSE j \in bad : \A k \in bad : j <= k].err)
               ELSE Ok([j \in 1..Len(refs) |-> res[j].v]))

-----------------------------------------------------------------------------
(* Names fixed by const.js *)

MANIFEST_FILENAME == Seg("publication", "json")
TOC_FILENAME == Seg("index", "html")
COVER_HTML_FILENAME == Seg("cover", "html")
TOC_TITLE == "Table of Contents"
COVER_HTML_IMAGE_ALT == "Cover image"
EPUB_OUTPUT_VERSION == "3.0"

-----------------------------------------------------------------------------
(* Strings that name a manuscript: a filesystem path or an http(s) URL *)

FsStr(p) == [kind |-> "fs", host |-> "", p |-> p]
HttpStr(host, segs) == [kind |-> "http", host |-> host, p |-> AbsP(segs)]

\* the string taken as a filesystem path: upath normalizes "https://h/x" to
\* the relative path https:/h/x
AsPath(u) ==
    IF u.kind = "http" THEN Rel(<<Dir("https:"), Dir(u.host)>> \o u.p.segs) ELSE u.p

\* entry sources.  A file source holds its pathname string (written) and
\* the file that string denotes (pathname): a relative string denotes a file
\* below the working directory of the process.
WrittenSource(written, pathname, contentType) ==
    [type |-> "file", written |-> written, pathname |-> pathname,
     contentType |-> contentType,
     href |-> [origin |-> "", segs |-> <<>>], rootDir |-> <<>>]
FileSource(pathname, contentType) ==
    WrittenSource(AbsP(pathname), pathname, contentType)
UriSource(origin, segs, rootDir) ==
    [type |-> "uri", written |-> Rel(<<>>), pathname |-> <<>>, contentType |-> "",
     href |-> [origin |-> origin, segs |-> segs], rootDir |-> rootDir]

\* util.statFileSync(path, {errorMessage}): throws when no file is there
statFileSync(path, errorMessage, files) ==
    IF path \in files THEN Ok(path)
    ELSE Err(Error(errorMessage, <<PathString(path)>>))

DefaultStatMessage == "Specified input does not exist"

\* `${value}` of a template literal: an object prints as [object Object]
TemplateString(v) == "[object Object]"

\* parseFileMetadata: {title, themes} of a manuscript file, read without the
\* full transformation; themes are resolved only when themesDir is given
parseFileMetadata(i, contentType, sourcePath, workspaceDir, themesDir, files) ==
    IF sourcePath \notin files
    THEN Err(Error("ENOENT: no such file or directory", <<PathString(sourcePath)>>))
    ELSE IF contentType = "text/markdown"
    THEN LET fm == FrontMatterTheme(sourcePath)
             title == FrontMatterTitle(sourcePath)
         IN  IF IsSome(fm) /\ IsSome(themesDir)
             THEN With(parseThemes("meta", i, Get(fm), Dirname(sourcePath),
                                   workspaceDir, Get(themesDir), files),
                       LAMBDA th :
                         IF th.ok THEN Ok([title |-> title, themes |-> Some(th.v)])
                         ELSE th)
             ELSE Ok([title |-> title, themes |-> None])
    ELSE Ok([title |-> IF Truthy(HtmlTitle(sourcePath)) THEN HtmlTitle(sourcePath)
                       ELSE None,
             themes |-> None])

-----------------------------------------------------------------------------
(* composeProjectConfig: parseEntry *)

\* An entry declaration.  rel is None for a manuscript; theme holds the list
\* [entry.theme].flat() when a theme is declared.
Entry(rel, path, output, theme, title, imageSrc) ==
    [rel |-> rel, path |-> path, output |-> output, theme |-> theme,
     title |-> title, imageSrc |-> imageSrc]

isContentsEntry(entry) == entry.rel = Some("contents")
isCoverEntry(entry) == entry.rel = Some("cover")
isArticleEntry(entry) == ~isContentsEntry(entry) /\ ~isCoverEntry(entry)

\* a parsed entry; the fields a kind does not have are None
ParsedEntry(rel, contentType, source, template, target, title, themes, image) ==
    [rel |-> rel, contentType |-> contentType, source |-> source,
     template |-> template, target |-> target, title |-> title,
     themes |-> themes, coverImageSrc |-> image]

\* getInputInfo(entryPath): the source of an entry and, for a file, its metadata
getInputInfo(i, entry, entryPath, env, files) ==
    IF entryPath.kind = "http"
    THEN Ok([source |-> UriSource("https://" \o entryPath.host, entryPath.p.segs,
                                  env.workspaceDir \o <<Dir(entryPath.host)>>),
             metadata |-> None])
    ELSE IF entryPath.p.abs
    THEN Ok([source |-> UriSource(env.localOrigin, entryPath.p.segs,
                                  env.workspaceDir \o <<Dir(".local")>>),
             metadata |-> None])
    ELSE
    LET pathname == Resolve(env.entryContextDir, entryPath.p)
        st == statFileSync(pathname, DefaultStatMessage, files)
        contentType == mime(pathname)
    IN  IF ~st.ok THEN st
        ELSE IF ~isManuscriptMediaType(contentType)
        THEN Err(Error("Invalid manuscript type ${contentType} detected: ${entry}",
                       <<contentType, TemplateString(entry)>>))
        ELSE
        With(parseFileMetadata(i, contentType, pathname, env.workspaceDir,
                               Some(env.themesDir), files),
             LAMBDA md :
               IF ~md.ok THEN md
               ELSE Ok([source |-> FileSource(pathname, contentType),
                        metadata |-> Some(md.v)]))

\* getTargetPath(source): the canonical target of a source
getTargetPath(source, env) ==
    IF source.type = "file"
    THEN Resolve(env.workspaceDir,
                 ReplaceMdRel(Relative(env.entryContextDir, source.pathname)))
    ELSE
    LET segs == source.href.segs
    IN  IF segs # <<>> /\ segs[Len(segs)].ext \in {"html", "htm"}
        THEN source.rootDir \o segs
        ELSE source.rootDir \o segs \o <<Seg("index", "html")>>

\* ensureCoverImage(src): the absolute path of the cover image, checked to exist
ensureCoverImage(src, env, files) ==
    IF src = None THEN Ok(None)
    ELSE LET absPath == Resolve(env.entryContextDir, Get(src))
             st == statFileSync(absPath, "Specified cover image does not exist", files)
         IN  IF st.ok THEN Ok(Some(absPath)) ELSE st

\* what a resolution has accumulated and done so far
Acc(themeIndexes, exportAliases, touchedFiles, files, warnings) ==
    [themeIndexes |-> themeIndexes, exportAliases |-> exportAliases,
     touched |-> touchedFiles, files |-> files, warnings |-> warnings]

\* a variant without the fallback: the entry is read as it is declared
assumeOutputNever(entry, env, files) == entry

\* the file-not-found fallback of contents and cover entries: path becomes output
\* (the entry object itself is modified)
assumeOutput(entry, env, files) ==
    IF (isContentsEntry(entry) \/ isCoverEntry(entry)) /\ IsSome(entry.path)
       /\ Resolve(env.entryContextDir, AsPath(Get(entry.path))) \notin files
    THEN [entry EXCEPT !.output = entry.path, !.path = None]
    ELSE entry

\* themes.forEach((t) => themeIndexes.add(t))
addThemesNone(acc, themes) == acc
addThemes(acc, themes) == [acc EXCEPT !.themeIndexes = @ \cup SeqToSet(themes)]

\* a variant that passes over the themes of the metadata
entryThemesWithoutMetadata(i, entry, metadata, dflt, env, files) ==
    IF IsSome(entry.theme)
    THEN parseThemes("entry", i, Get(entry.theme), env.context, env.workspaceDir,
                     env.themesDir, files)
    ELSE Ok(dflt)

\* themes of an entry: the explicit ones, else those of the metadata, else dflt
entryThemes(i, entry, metadata, dflt, env, files) ==
    IF IsSome(entry.theme)
    THEN parseThemes("entry", i, Get(entry.theme), env.context, env.workspaceDir,
                     env.themesDir, files)
    ELSE Ok(IF IsSome(metadata) /\ IsSome(Get(metadata).themes)
            THEN Get(Get(metadata).themes) ELSE dflt)

\* entry.title ?? metadata?.title ?? projectTitle
entryTitle(entry, metadata, env) ==
    OrOpt(entry.title,
          OrOpt(IF IsSome(metadata) THEN Get(metadata).title ELSE None,
                env.projectTitle))

\* the collision check: a target that is the template file itself is staged
\* at a temporary sibling, recorded as an alias
tmpPathOf(target, prefix) ==
    Dirname(target) \o <<WithPrefix(prefix, Basename(target))>>

\* a variant that stages the entry without recording the alias
stageIfSameUnrecorded(info, target, acc, env) ==
    IF IsSome(info) /\ Get(info).source.type = "file"
       /\ pathEquals(Get(info).source.pathname, target)
    THEN LET tmpPath == tmpPathOf(target, env.temporaryFilePrefix)
         IN  [target |-> tmpPath,
              acc |-> [acc EXCEPT !.touched = @ \cup {tmpPath},
                                  !.files = @ \cup {tmpPath}]]
    ELSE [target |-> target, acc |-> acc]

stageIfSame(info, target, acc, env) ==
    IF IsSome(info) /\ Get(info).source.type = "file"
       /\ pathEquals(Get(info).source.pathname, target)
    THEN LET tmpPath == tmpPathOf(target, env.temporaryFilePrefix)
         IN  [target |-> tmpPath,
              acc |-> [acc EXCEPT
                         !.exportAliases = @ \o <<[source |-> tmpPath,
                                                   target |-> target]>>,
                         !.touched = @ \cup {tmpPath},
                         !.files = @ \cup {tmpPath}]]
    ELSE [target |-> target, acc |-> acc]

\* the optional input of a contents or cover entry
optionalInput(i, entry, env, files) ==
    IF IsSome(entry.path)
    THEN With(getInputInfo(i, entry, Get(entry.path), env, files),
              LAMBDA r : IF r.ok THEN Ok(Some(r.v)) ELSE r)
    ELSE Ok(None)

\* entry.output ? resolve(workspaceDir, entry.output)
\*              : inputInfo && getTargetPath(inputInfo)
declaredTarget(entry, info, env) ==
    IF IsSome(entry.output)
    THEN Some(Resolve(env.workspaceDir, AsPath(Get(entry.output))))
    ELSE IF IsSome(info) THEN Some(getTargetPath(Get(info).source, env))
    ELSE None

infoMetadata(info) == IF IsSome(info) THEN Get(info).metadata ELSE None
infoTemplate(info) == IF IsSome(info) THEN Some(Get(info).source) ELSE None

\* parseEntry, contents branch
parseContentsEntry(i, entry, acc, env) ==
    With(optionalInput(i, entry, env, acc.files), LAMBDA inp :
    IF ~inp.ok THEN [acc |-> acc, res |-> inp]
    ELSE
    With(entryThemes(i, entry, infoMetadata(inp.v), env.rootThemes, env, acc.files),
         LAMBDA th :
    IF ~th.ok THEN [acc |-> acc, res |-> th]
    ELSE
    With(stageIfSame(inp.v,
                     OrElse(declaredTarget(entry, inp.v, env), env.tocConfig.target),
                     addThemes(acc, th.v), env),
         LAMBDA staged :
    [acc |-> staged.acc,
     res |-> Ok(ParsedEntry(Some("contents"), None, None,
                            infoTemplate(inp.v), staged.target,
                            entryTitle(entry, infoMetadata(inp.v), env),
                            th.v, None))])))

CoverImageNotSet ==
    "A CoverEntryObject is set in the entry list but a location of cover file is not set. Please set 'cover' property in your config file."

\* a variant that lets a cover entry without image through
coverImageUnchecked(img) == Ok(img)

\* the cover image of a cover entry is mandatory
coverImageOrThrow(img) ==
    IF img = None THEN Err(Error(CoverImageNotSet, <<>>)) ELSE Ok(img)

\* parseEntry, cover branch
parseCoverEntry(i, entry, acc, env) ==
    With(optionalInput(i, entry, env, acc.files), LAMBDA inp :
    IF ~inp.ok THEN [acc |-> acc, res |-> inp]
    ELSE
    With(entryThemes(i, entry, infoMetadata(inp.v), <<>>, env, acc.files),
         LAMBDA th :
    IF ~th.ok THEN [acc |-> acc, res |-> th]
    ELSE
    With(addThemes(acc, th.v), LAMBDA acc1 :
    With(ensureCoverImage(IF IsSome(entry.imageSrc) THEN entry.imageSrc
                          ELSE IF IsSome(env.cover)
                          THEN Some(AbsP(Get(env.cover).src))
                          ELSE None,
                          env, acc.files),
         LAMBDA found :
    With(IF found.ok THEN coverImageOrThrow(found.v) ELSE found, LAMBDA img :
    IF ~img.ok THEN [acc |-> acc1, res |-> img]
    ELSE
    LET htmlPath == IF IsSome(env.cover) THEN Get(env.cover).htmlPath ELSE None
        dflt == IF IsSome(entry.path)
                THEN Resolve(env.workspaceDir, AsPath(Get(entry.path)))
                ELSE IF IsSome(htmlPath) THEN Get(htmlPath)
                ELSE env.workspaceDir \o <<COVER_HTML_FILENAME>>
    IN  With(stageIfSame(inp.v, OrElse(declaredTarget(entry, inp.v, env), dflt),
                         acc1, env),
             LAMBDA staged :
        [acc |-> staged.acc,
         res |-> Ok(ParsedEntry(Some("cover"), None, None,
                                infoTemplate(inp.v), staged.target,
                                entryTitle(entry, infoMetadata(inp.v), env),
                                th.v, img.v))]))))))

\* parseEntry, manuscript branch: the target is not compared with the source
parseArticleEntry(i, entry, acc, env) ==
    With(getInputInfo(i, entry, Get(entry.path), env, acc.files), LAMBDA inp :
    IF ~inp.ok THEN [acc |-> acc, res |-> inp]
    ELSE
    With(entryThemes(i, entry, inp.v.metadata, env.rootThemes, env, acc.files),
         LAMBDA th :
    IF ~th.ok THEN [acc |-> acc, res |-> th]
    ELSE [acc |-> addThemes(acc, th.v),
          res |-> Ok(ParsedEntry(entry.rel,
                                 Some(IF inp.v.source.type = "file"
                                      THEN inp.v.source.contentType
                                      ELSE "text/html"),
                                 Some(inp.v.source), None,
                                 Get(declaredTarget(entry, Some(inp.v), env)),
                                 entryTitle(entry, inp.v.metadata, env),
                                 th.v, None))]))

\* parseEntry(entry): the parsed entry or the error thrown, what the call
\* added to the theme index, the aliases and the disk, and the entry object
\* as the call leaves it
parseEntry(i, entry0, acc0, env) ==
    With(assumeOutput(entry0, env, acc0.files), LAMBDA entry :
    With(IF entry = entry0 THEN acc0
         ELSE [acc0 EXCEPT !.warnings = @ \o <<[text |->
                  "The \"path\" option is set but the file does not exist",
                  path |-> Resolve(env.entryContextDir,
                                   AsPath(Get(entry0.path)))]>>],
         LAMBDA acc :
    With(IF isContentsEntry(entry) THEN parseContentsEntry(i, entry, acc, env)
         ELSE IF isCoverEntry(entry) THEN parseCoverEntry(i, entry, acc, env)
         ELSE parseArticleEntry(i, entry, acc, env),
         LAMBDA r :
    [acc |-> r.acc, res |-> r.res, entry |-> entry])))

\* config.entry.map(parseEntry), left to right, stopping at the first throw:
\* [acc, res: Ok(the parsed entries) or Err, entry: the entry objects afterwards]
RECURSIVE parseEntries(_, _, _, _, _)
parseEntries(i, entries, acc, env, done) ==
    IF i > Len(entries)
    THEN [acc |-> acc, res |-> Ok(done), entry |-> entries]
    ELSE With(parseEntry(i, entries[i], acc, env), LAMBDA r :
         LET entries1 == [entries EXCEPT ![i] = r.entry]
         IN  IF ~r.res.ok
             THEN [acc |-> r.acc, res |-> r.res, entry |-> entries1]
             ELSE parseEntries(i + 1, entries1, r.acc, env, Append(done, r.res.v)))

-----------------------------------------------------------------------------
(* resolveTaskConfig: what is common to both modes *)

\* a declared output {path, format, ...}; a key that is absent is None
OutputDecl(path, format) ==
    [path |-> path, format |-> format, renderMode |-> None, preflight |-> None,
     preflightOption |-> None, version |-> None]

\* a variant that joins the declared path to the context, absolute or not
outputPathJoined(context, target) == DropLast(context, target.path.up) \o target.path.segs

\* upath.resolve(context, target.path)
outputPathOf(context, target) == Resolve(context, target.path)

\* Output Target Normalizer: one element of config.output as an OutputConfig
normalizeOutput(target, pressReady, context) ==
    LET outputPath == outputPathOf(context, target)
    IN  CASE target.format = "pdf" ->
               [target EXCEPT
                  !.path = outputPath,
                  !.renderMode = Some(OrElse(@, "local")),
                  !.preflight = Some(OrElse(@, IF pressReady THEN "press-ready"
                                                ELSE "null")),
                  !.preflightOption = Some(OrElse(@, <<>>))]
          [] target.format = "epub" ->
               [target EXCEPT !.path = outputPath,
                              !.version = Some(EPUB_OUTPUT_VERSION)]
          [] OTHER -> [target EXCEPT !.path = outputPath]

\* a variant that never uses the title
defaultOutputNameUntitled(cfg) == Seg("output", "pdf")

\* config.title ? `${config.title}.pdf` : 'output.pdf'
defaultOutputName(cfg) ==
    IF Truthy(cfg.title) THEN Seg(Get(cfg.title), "pdf") ELSE Seg("output", "pdf")

resolveOutputs(cfg, context) ==
    IF IsSome(cfg.output)
    THEN [k \in 1..Len(Get(cfg.output)) |->
            normalizeOutput(Get(cfg.output)[k], cfg.pressReady, context)]
    ELSE <<normalizeOutput(OutputDecl(Rel(<<defaultOutputName(cfg)>>), "pdf"),
                           cfg.pressReady, context)>>

\* config.cover && {src, name, htmlPath}
resolveCover(cfg, entryContextDir, workspaceDir) ==
    IF cfg.cover = None THEN None
    ELSE LET c == Get(cfg.cover)
         IN  Some([src |-> Resolve(entryContextDir, c.src),
                   name |-> IF Truthy(c.name) THEN Get(c.name)
                            ELSE COVER_HTML_IMAGE_ALT,
                   htmlPath |->
                       IF c.hasHtmlPath /\ c.htmlPath = None THEN None
                       ELSE Some(Resolve(workspaceDir,
                                         OrElse(c.htmlPath,
                                                Rel(<<COVER_HTML_FILENAME>>))))])

\* a variant that always derives the prefix from the clock
temporaryFilePrefixFromClock(cfg, clock) == ".vs-" \o ToString(clock) \o "."

\* config.temporaryFilePrefix ?? `.vs-${Date.now()}.`
temporaryFilePrefixOf(cfg, clock) ==
    OrElse(cfg.temporaryFilePrefix, ".vs-" \o ToString(clock) \o ".")

\* the fields of CommonOpts the plan composers read
commonOpts(cfg, clock, rootThemes) ==
    LET context == Context
        entryContextDir == IF IsSome(cfg.entryContext)
                           THEN Resolve(context, Get(cfg.entryContext))
                           ELSE context
        workspaceDir == Resolve(context, OrElse(cfg.workspaceDir,
                                                Rel(<<Dir(".vivliostyle")>>)))
    IN  [context |-> context,
         entryContextDir |-> entryContextDir,
         workspaceDir |-> workspaceDir,
         themesDir |-> workspaceDir \o <<Dir("themes")>>,
         temporaryFilePrefix |-> temporaryFilePrefixOf(cfg, clock),
         rootThemes |-> rootThemes,
         themeIndexes |-> SeqToSet(rootThemes),
         outputs |-> resolveOutputs(cfg, context),
         cover |-> resolveCover(cfg, entryContextDir, workspaceDir)]

\* the root themes: config.theme?.map(parseTheme) ?? []
resolveRootThemes(cfg, files) ==
    LET context == Context
        workspaceDir == Resolve(context, OrElse(cfg.workspaceDir,
                                                Rel(<<Dir(".vivliostyle")>>)))
    IN  IF IsSome(cfg.theme)
        THEN parseThemes("root", 0, Get(cfg.theme), context, workspaceDir,
                         workspaceDir \o <<Dir("themes")>>, files)
        ELSE Ok(<<>>)

\* the plan: the fields of ResolvedTaskConfig that resolution computes (the
\* per-run scalar options are copied from the inputs and are left out)
Plan(common, entries, input, viewerInput, exportAliases, themeIndexes, title) ==
    [type |-> "plan",
     context |-> common.context,
     entryContextDir |-> common.entryContextDir,
     workspaceDir |-> common.workspaceDir,
     themesDir |-> common.themesDir,
     entries |-> entries,
     input |-> input,
     viewerInput |-> viewerInput,
     outputs |-> common.outputs,
     themeIndexes |-> themeIndexes,
     rootThemes |-> common.rootThemes,
     exportAliases |-> exportAliases,
     temporaryFilePrefix |-> common.temporaryFilePrefix,
     cover |-> common.cover,
     title |-> title]

ViewerInput(type, path, generate, tmpDir) ==
    [type |-> type, path |-> path, needToGenerateManifest |-> generate,
     epubTmpOutputDir |-> tmpDir]

-----------------------------------------------------------------------------
(* composeProjectConfig *)

LocalOrigin == "http://localhost:13000"

tocConfigOf(cfg, workspaceDir) ==
    LET toc == cfg.toc
    IN  [tocTitle |-> IF IsSome(toc) /\ IsSome(Get(toc).title) THEN Get(Get(toc).title)
                      ELSE TOC_TITLE,
         target |-> Resolve(workspaceDir,
                            IF IsSome(toc) /\ IsSome(Get(toc).htmlPath)
                            THEN Get(Get(toc).htmlPath)
                            ELSE Rel(<<TOC_FILENAME>>))]

\* the result of a resolution: what it returned or threw, what it did to the
\* disk, what it logged, and the declared entry objects as it leaves them
Outcome(res, acc, entry) == [res |-> res, acc |-> acc, entry |-> entry]

\* the entries after the table of contents and the cover are put in front
withContents(entries, cfg, env) ==
    IF IsSome(cfg.toc) /\ ~\E k \in 1..Len(entries) : entries[k].rel = Some("contents")
    THEN <<ParsedEntry(Some("contents"), None, None, None, env.tocConfig.target,
                       None, env.rootThemes, None)>> \o entries
    ELSE entries

\* a variant that does not look for a declared cover entry
needsCoverUnlessDisabled(entries, env) ==
    IsSome(env.cover) /\ IsSome(Get(env.cover).htmlPath)

needsCover(entries, env) ==
    /\ IsSome(env.cover) /\ IsSome(Get(env.cover).htmlPath)
    /\ ~\E k \in 1..Len(entries) : entries[k].rel = Some("cover")

withCover(entries, image, env) ==
    <<ParsedEntry(Some("cover"), None, None, None, Get(Get(env.cover).htmlPath),
                  env.projectTitle, <<>>, image)>> \o entries

\* fallbackProjectTitle: set only when there is no project title
fallbackProjectTitleOfFirst(projectTitle, entries, outputs) ==
    IF Truthy(projectTitle) THEN None
    ELSE IF Len(entries) >= 1 /\ Truthy(entries[1].title) THEN entries[1].title
    ELSE Some(NameStr(Basename(outputs[1].path)))
fallbackProjectTitleOf(projectTitle, entries, outputs) ==
    IF Truthy(projectTitle) THEN None
    ELSE IF Len(entries) = 1 /\ Truthy(entries[1].title) THEN entries[1].title
    ELSE Some(NameStr(Basename(outputs[1].path)))

composeProjectConfig(common, cfg, pkg, files) ==
    LET projectTitle == OrOpt(cfg.title, IF IsSome(pkg) THEN Get(pkg).name ELSE None)
        env == [context |-> common.context,
                entryContextDir |-> common.entryContextDir,
                workspaceDir |-> common.workspaceDir,
                themesDir |-> common.themesDir,
                temporaryFilePrefix |-> common.temporaryFilePrefix,
                rootThemes |-> common.rootThemes,
                cover |-> common.cover,
                tocConfig |-> tocConfigOf(cfg, common.workspaceDir),
                projectTitle |-> projectTitle,
                localOrigin |-> LocalOrigin]
    IN  With(parseEntries(1, cfg.entry,
                          Acc(common.themeIndexes, <<>>, {}, files, <<>>), env, <<>>),
             LAMBDA r :
        IF ~r.res.ok THEN Outcome(r.res, r.acc, r.entry)
        ELSE
        LET entries == r.res.v
            titled == Len(entries) = 1 /\ Truthy(entries[1].title)
        IN  IF ~Truthy(projectTitle) /\ ~titled /\ common.outputs = <<>>
            THEN Outcome(Err(Error("TypeError: Cannot read properties of undefined (reading 'path')",
                                   <<>>)), r.acc, r.entry)
            ELSE
            LET fallbackProjectTitle ==
                    fallbackProjectTitleOf(projectTitle, entries, common.outputs)
            IN  With(withContents(entries, cfg, env), LAMBDA entries1 :
                With(IF needsCover(entries1, env)
                     THEN ensureCoverImage(Some(AbsP(Get(env.cover).src)), env,
                                           r.acc.files)
                     ELSE Ok(None),
                     LAMBDA image :
                IF ~image.ok THEN Outcome(image, r.acc, r.entry)
                ELSE
                LET entries2 == IF needsCover(entries1, env)
                                THEN withCover(entries1, image.v, env)
                                ELSE entries1
                    manifestPath == common.workspaceDir \o <<MANIFEST_FILENAME>>
                IN  Outcome(Ok(Plan(common, entries2,
                                    [format |-> "pub-manifest",
                                     entry |-> AbsP(manifestPath)],
                                    ViewerInput("webpub", AbsP(manifestPath), TRUE,
                                                <<>>),
                                    r.acc.exportAliases, r.acc.themeIndexes,
                                    OrFalsy(projectTitle, fallbackProjectTitle))),
                            r.acc, r.entry))))

-----------------------------------------------------------------------------
(* composeSingleInputConfig *)

\* the file a pathname string denotes: a relative one is taken from the
\* working directory of the process
Denoted(p) == Resolve(Context, p)

\* pathToFileURL(path) and new URL(uri)
FileUrl(p) == [origin |-> "file://", segs |-> Denoted(p), slash |-> FALSE]

\* the source path of the single input: the string itself, or the string
\* resolved against the entry-context directory and checked to exist
singleSourcePath(input, common, files) ==
    IF ~(input.entry.kind = "http")
    THEN Ok(input.entry.p)
    ELSE LET sourcePath == Resolve(common.entryContextDir, AsPath(input.entry))
             st == statFileSync(sourcePath, DefaultStatMessage, files)
         IN  IF st.ok THEN Ok(AbsP(sourcePath)) ELSE st

\* a variant that stages the entry at its canonical name
singleMarkdownEntryUnstaged(sourcePath, md, common) ==
    LET relDir == Relative(common.entryContextDir, Dirname(Denoted(sourcePath)))
        name == sourcePath.segs[Len(sourcePath.segs)]
        target == ReplaceMdAbs(Resolve(Resolve(common.workspaceDir, relDir),
                                       Rel(<<name>>)))
    IN  [entry |-> ParsedEntry(None, Some("text/markdown"),
                               Some(WrittenSource(sourcePath, Denoted(sourcePath),
                                                  "text/markdown")),
                               None, target, md.title,
                               OrElse(md.themes, common.rootThemes), None),
         alias |-> [source |-> target,
                    target |-> Resolve(Dirname(target), Rel(<<ReplaceMdSeg(name)>>))]]

\* the markdown branch: the staged manuscript entry and its alias
singleMarkdownEntry(sourcePath, md, common) ==
    LET relDir == Relative(common.entryContextDir, Dirname(Denoted(sourcePath)))
        name == sourcePath.segs[Len(sourcePath.segs)]
        target == ReplaceMdAbs(Resolve(Resolve(common.workspaceDir, relDir),
                                       Rel(<<WithPrefix(common.temporaryFilePrefix,
                                                        name)>>)))
        themes == OrElse(md.themes, common.rootThemes)
    IN  [entry |-> ParsedEntry(None, Some("text/markdown"),
                               Some(WrittenSource(sourcePath, Denoted(sourcePath),
                                                  "text/markdown")),
                               None, target, md.title, themes, None),
         alias |-> [source |-> target,
                    target |-> Resolve(Dirname(target), Rel(<<ReplaceMdSeg(name)>>))]]

\* /^https?:/i.test(url.protocol)
IsHttpUrl(url) == url.origin # "file://"

\* the webbook entry URL: an http(s) URL whose path ends neither in "/" nor in
\* .html or .htm gets a trailing slash
webbookEntryUrl(url) ==
    IF /\ IsHttpUrl(url)
       /\ ~(url.slash \/ url.segs = <<>>)
       /\ Basename(url.segs).ext \notin {"html", "htm"}
    THEN [url EXCEPT !.slash = TRUE]
    ELSE url

\* the viewer input of the formats other than markdown.  sourcePath is the
\* input string when that is no URI and a resolved absolute path otherwise, so
\* isValidUri(sourcePath) is false and the URL is pathToFileURL(sourcePath)
singleViewerInput(format, sourcePath, common) ==
    CASE format = "webbook" ->
            ViewerInput("webbook", webbookEntryUrl(FileUrl(sourcePath)), FALSE, <<>>)
      [] format = "pub-manifest" -> ViewerInput("webpub", sourcePath, FALSE, <<>>)
      [] format = "epub-opf" -> ViewerInput("epub-opf", sourcePath, FALSE, <<>>)
      [] OTHER ->
            ViewerInput("epub", sourcePath, FALSE,
                        Dirname(Denoted(sourcePath))
                        \o <<WithPrefix(common.temporaryFilePrefix,
                                        sourcePath.segs[Len(sourcePath.segs)])>>)

composeSingleInputConfig(common, cfg, input, files) ==
    LET acc0 == Acc(common.themeIndexes, <<>>, {}, files, <<>>)
    IN  With(singleSourcePath(input, common, files), LAMBDA sp :
        IF ~sp.ok THEN Outcome(sp, acc0, cfg.entry)
        ELSE IF input.format = "markdown"
        THEN With(parseFileMetadata(1, "text/markdown", Denoted(sp.v),
                                    common.workspaceDir, None, files),
                  LAMBDA md :
                 IF ~md.ok THEN Outcome(md, acc0, cfg.entry)
                 ELSE
                 With(singleMarkdownEntry(sp.v, md.v, common), LAMBDA e :
                 LET manifestPath ==
                         common.workspaceDir
                         \o <<WithPrefix(common.temporaryFilePrefix, MANIFEST_FILENAME)>>
                     aliases == <<e.alias,
                                  [source |-> manifestPath,
                                   target |-> common.workspaceDir
                                              \o <<MANIFEST_FILENAME>>]>>
                     acc == Acc(addThemes(acc0, e.entry.themes).themeIndexes,
                                aliases, {e.entry.target, manifestPath},
                                files \cup {e.entry.target, manifestPath}, <<>>)
                     fallbackTitle ==
                         IF Truthy(e.entry.title) THEN e.entry.title
                         ELSE Some(NameStr(sp.v.segs[Len(sp.v.segs)]))
                 IN  Outcome(Ok(Plan(common, <<e.entry>>,
                                     [format |-> input.format, entry |-> sp.v],
                                     ViewerInput("webpub", AbsP(manifestPath), TRUE,
                                                 <<>>),
                                     aliases, acc.themeIndexes,
                                     OrFalsy(cfg.title, fallbackTitle))),
                             acc, cfg.entry)))
        ELSE Outcome(Ok(Plan(common, <<>>,
                             [format |-> input.format, entry |-> sp.v],
                             singleViewerInput(input.format, sp.v, common),
                             <<>>, common.themeIndexes, OrFalsy(cfg.title, None))),
                     acc0, cfg.entry))

-----------------------------------------------------------------------------
(* resolveTaskConfig *)

\* single-input mode is taken when an input is given and no config file is
singleInputMode(opts) == opts.config = None /\ IsSome(opts.input)

resolveTaskConfig(cfg, opts, pkg, files, clock) ==
    With(resolveRootThemes(cfg, files), LAMBDA roots :
    IF ~roots.ok
    THEN Outcome(roots, Acc({}, <<>>, {}, files, <<>>), cfg.entry)
    ELSE With(commonOpts(cfg, clock, roots.v), LAMBDA common :
         IF singleInputMode(opts)
         THEN composeSingleInputConfig(common, cfg, Get(opts.input), files)
         ELSE composeProjectConfig(common, cfg, pkg, files)))

-----------------------------------------------------------------------------
(* The inputs the resolutions are run on *)

File(stem, ext) == Some(FsStr(Rel(<<Seg(stem, ext)>>)))

Article(path) == Entry(None, path, None, None, None, None)
ArtA == Article(File("a", "md"))
ArtT == Article(File("t", "md"))
ArtB == Article(File("b", "html"))
ArtPng == Article(File("img", "png"))
ArtMissing == Article(File("missing", "md"))
\* b.html with output ../b.html, which names b.html itself when the workspace
\* directory is a child of the entry-context directory
ArtBOut == [ArtB EXCEPT !.output = Some(FsStr(UpRel(1, <<Seg("b", "html")>>)))]
ArtUrl == Article(Some(HttpStr("example.com", <<Dir("doc")>>)))

Contents(path) == Entry(Some("contents"), path, None, None, None, None)
Cover(path, imageSrc) == Entry(Some("cover"), path, None, None, None, imageSrc)
ImgSrc == Some(Rel(<<Seg("img", "png")>>))

EntryChoices ==
    {ArtA, ArtT, ArtB, ArtPng, ArtMissing, ArtBOut, ArtUrl,
     Contents(None), Contents(File("b", "html")), Contents(File("toc", "html")),
     Cover(None, None), Cover(File("b", "html"), ImgSrc)}

SeqsUpTo(S, n) == UNION {[1..k -> S] : k \in 0..n}

BaseConfig ==
    [entry |-> <<>>, theme |-> None, output |-> None, title |-> None,
     temporaryFilePrefix |-> None, workspaceDir |-> None, entryContext |-> None,
     pressReady |-> FALSE, toc |-> None, cover |-> None]

ProjectOptions == [input |-> None, config |-> None]
SingleOptions(format, entry) ==
    [input |-> Some([format |-> format, entry |-> entry]), config |-> None]

Input(cfg, opts, pkg) == [config |-> cfg, options |-> opts, pkgJson |-> pkg]

Prefixes == {None, Some(".tmp.")}
\* workspaceDir: the default .vivliostyle, or "." (the context directory)
WorkspaceDirs == {None, Some(Rel(<<>>))}

\* projects that differ in entries, workspace directory and temporary prefix
EntryInputs ==
    {Input([BaseConfig EXCEPT !.entry = es, !.workspaceDir = ws,
                              !.temporaryFilePrefix = pre],
           ProjectOptions, None) :
       es \in SeqsUpTo(EntryChoices, MaxEntries), ws \in WorkspaceDirs,
       pre \in Prefixes}

\* projects that differ in root themes, in the theme and role of their entry,
\* and in the configured table of contents and cover
RootThemeChoices == {None, Some(<<ThemeCssRef>>), Some(<<UriRef, PkgRef("@org/theme")>>),
                     Some(<<GitRef>>)}
EntryThemeChoices == {None, Some(<<ThemeCssRef>>), Some(<<>>)}
ThemedEntries ==
    {[e EXCEPT !.theme = th] :
       e \in {ArtA, ArtT, ArtB, Contents(None), Contents(File("t", "md")),
              Cover(None, ImgSrc), Cover(File("t", "md"), ImgSrc), Cover(None, None)},
       th \in EntryThemeChoices}
TocChoices == {None, Some([title |-> None, htmlPath |-> None])}
\* cover: none, { src } and { src, htmlPath: false }
CoverChoices == {None, Some([src |-> Rel(<<Seg("img", "png")>>), name |-> None,
                             hasHtmlPath |-> FALSE, htmlPath |-> None]),
                 Some([src |-> Rel(<<Seg("img", "png")>>), name |-> None,
                       hasHtmlPath |-> TRUE, htmlPath |-> None])}
ThemeInputs ==
    {Input([BaseConfig EXCEPT !.entry = <<e>>, !.theme = rt, !.toc = toc,
                              !.cover = cov],
           ProjectOptions, None) :
       e \in ThemedEntries, rt \in RootThemeChoices, toc \in TocChoices,
       cov \in CoverChoices}

\* projects and single inputs whose root themes cover every kind of specifier
ClassifyThemeChoices ==
    {<<MyThemeRef>>, <<SrcDirRef>>, <<BadRef>>, <<UriRef, ThemeCssRef, MyThemeRef>>,
     <<PkgRef("@org/theme"), GitRef>>, <<ThemeCssRef, BadRef>>}
ClassifyInputs ==
    {Input([BaseConfig EXCEPT !.entry = es, !.theme = Some(th), !.workspaceDir = ws],
           opts, None) :
       es \in {<<>>, <<ArtA>>}, th \in ClassifyThemeChoices, ws \in WorkspaceDirs,
       opts \in {ProjectOptions,
                 SingleOptions("markdown", FsStr(Rel(<<Seg("a", "md")>>)))}}

\* projects whose contents or cover entry names an http(s) URL as its path
UrlTemplateEntries ==
    {<<Contents(Some(HttpStr("example.com", <<Dir("toc")>>)))>>,
     <<Cover(Some(HttpStr("example.com", <<Seg("cover", "html")>>)), ImgSrc), ArtA>>,
     <<ArtUrl, Contents(Some(HttpStr("example.com", <<Seg("toc", "html")>>)))>>}
UrlTemplateInputs ==
    {Input([BaseConfig EXCEPT !.entry = es, !.workspaceDir = ws], ProjectOptions, None) :
       es \in UrlTemplateEntries, ws \in WorkspaceDirs}

\* projects that differ in declared outputs and in the sources of the title
OutputChoices ==
    {None, Some(<<>>),
     Some(<<OutputDecl(Rel(<<Seg("book", "pdf")>>), "pdf")>>),
     Some(<<OutputDecl(AbsP(<<Dir("out"), Seg("book", "epub")>>), "epub"),
            OutputDecl(UpRel(1, <<Dir("site")>>), "webpub")>>),
     Some(<<[OutputDecl(Rel(<<Dir("dist"), Seg("x", "pdf")>>), "pdf")
               EXCEPT !.preflight = Some("press-ready-local")]>>)}
TitleChoices == {None, Some("Book")}
PkgChoices == {None, Some([name |-> Some("pkg")])}
OutputInputs ==
    {Input([BaseConfig EXCEPT !.entry = es, !.output = out, !.title = title,
                              !.pressReady = pr],
           ProjectOptions, pkg) :
       es \in {<<>>, <<ArtA>>, <<ArtT>>, <<ArtA, ArtB>>}, out \in OutputChoices,
       title \in TitleChoices, pr \in BOOLEAN, pkg \in PkgChoices}

\* single inputs: a string and its format, with an optional entry context
SingleChoices ==
    {SingleOptions("markdown", FsStr(Rel(<<Seg("a", "md")>>))),
     SingleOptions("markdown", FsStr(Rel(<<Seg("t", "md")>>))),
     SingleOptions("markdown", FsStr(AbsP(SMd))),
     SingleOptions("markdown", FsStr(Rel(<<Seg("s", "md")>>))),
     SingleOptions("markdown", HttpStr("example.com", <<Seg("a", "md")>>)),
     SingleOptions("webbook", HttpStr("example.com", <<Dir("doc")>>)),
     SingleOptions("webbook", FsStr(Rel(<<Seg("b", "html")>>))),
     SingleOptions("webbook", FsStr(Rel(<<Dir("book")>>))),
     SingleOptions("pub-manifest", FsStr(Rel(<<Seg("publication", "json")>>))),
     SingleOptions("epub", FsStr(Rel(<<Seg("book", "epub")>>))),
     SingleOptions("epub-opf", FsStr(Rel(<<Seg("content", "opf")>>)))}
SingleInputs ==
    {Input([BaseConfig EXCEPT !.entryContext = ec, !.temporaryFilePrefix = pre,
                              !.theme = rt, !.title = title],
           opts, None) :
       opts \in SingleChoices, ec \in {None, Some(Rel(<<Dir("src")>>))},
       pre \in Prefixes, rt \in {None, Some(<<ThemeCssRef>>)},
       title \in TitleChoices}

\* a project file named on the command line (-c), alone or with a single input
ConfigFileOptions(input) ==
    [input |-> input, config |-> Some("vivliostyle.config.js")]
ConfigFileInputs ==
    {Input([BaseConfig EXCEPT !.entry = es], ConfigFileOptions(inp), None) :
       es \in {<<>>, <<ArtA>>},
       inp \in {None} \cup {o.input : o \in SingleChoices}}

\* projects with several declared entries and a configured table of contents
\* and cover
SynthesisInputs ==
    {Input([BaseConfig EXCEPT !.entry = es, !.toc = toc, !.cover = cov],
           ProjectOptions, None) :
       es \in {<<ArtA, ArtB>>, <<ArtB, ArtA>>, <<ArtA, Contents(None), ArtB>>,
               <<ArtA, Cover(None, ImgSrc), ArtB>>},
       toc \in TocChoices, cov \in CoverChoices}

\* projects whose entries name files that are not there
MissingImg == Some(Rel(<<Seg("missing", "png")>>))
MissingEntries ==
    {<<Cover(None, MissingImg)>>,
     <<ArtA, Cover(File("missing", "html"), ImgSrc)>>,
     <<Contents(File("missing", "html")), ArtMissing>>,
     <<Contents(File("missing", "html")), ArtB>>,
     <<[Contents(File("missing", "html")) EXCEPT !.output = File("toc", "html")],
       Cover(File("b", "html"), ImgSrc)>>,
     <<ArtB, Cover(File("nocover", "html"), None)>>}
MissingInputs ==
    {Input([BaseConfig EXCEPT !.entry = es, !.workspaceDir = ws, !.cover = cov],
           ProjectOptions, None) :
       es \in MissingEntries, ws \in WorkspaceDirs,
       cov \in {None, Some([src |-> Get(MissingImg), name |-> None,
                            hasHtmlPath |-> FALSE, htmlPath |-> None])}}

Inputs ==
    EntryInputs \cup ThemeInputs \cup OutputInputs \cup SingleInputs
    \cup ConfigFileInputs \cup SynthesisInputs \cup MissingInputs
    \cup ClassifyInputs \cup UrlTemplateInputs

-----------------------------------------------------------------------------
(* The build command's option parser *)

\* a target under construction: { output?, format? }
Target(output, format) == [output |-> output, format |-> format]

\* outputOptionProcessor(value): ts is the shared targets array
outputOptionProcessorOverwriting(ts, value) ==
    IF Len(ts) = 0
    THEN <<Target(Some(value), None)>>
    ELSE [ts EXCEPT ![Len(ts)].output = Some(value)]
outputOptionProcessor(ts, value) ==
    IF Len(ts) = 0 \/ IsSome(ts[Len(ts)].output)
    THEN Append(ts, Target(Some(value), None))
    ELSE [ts EXCEPT ![Len(ts)].output = Some(value)]

\* formatOptionProcessor(value)
formatOptionProcessor(ts, value) ==
    IF Len(ts) = 0 \/ IsSome(ts[Len(ts)].format)
    THEN Append(ts, Target(None, Some(value)))
    ELSE [ts EXCEPT ![Len(ts)].format = Some(value)]

\* config availableOutputFormat
availableOutputFormat == {"pdf", "epub", "webpub"}

\* config inferenceFormatByName(filename): by path.extname
inferenceFormatByName(filename) ==
    CASE filename.ext = "pdf" -> "pdf"
      [] filename.ext = "epub" -> "epub"
      [] OTHER -> "webpub"

\* a command-line value is a string, written as a file name record;
\* !value holds of undefined and of the empty string
Falsy(o) == ~(IsSome(o) /\ NameStr(Get(o)) # "")

\* the body of parsed.map in inferenceTargetsOption
inferTargetKeepingFormat(t) ==
    IF Falsy(t.output)
    THEN Err(Error("Couldn't find the output option corresponding --format ${format} option. Please check the command options.",
                   <<t.format>>))
    ELSE IF Falsy(t.format)
    THEN Ok([output |-> Get(t.output),
             format |-> inferenceFormatByName(Get(t.output))])
    ELSE Ok([output |-> Get(t.output), format |-> NameStr(Get(t.format))])
inferTarget(t) ==
    IF Falsy(t.output)
    THEN Err(Error("Couldn't find the output option corresponding --format ${format} option. Please check the command options.",
                   <<t.format>>))
    ELSE IF Falsy(t.format)
    THEN Ok([output |-> Get(t.output),
             format |-> inferenceFormatByName(Get(t.output))])
    ELSE IF NameStr(Get(t.format)) \notin availableOutputFormat
    THEN Err(Error("Unknown format: ${format}", <<t.format>>))
    ELSE Ok([output |-> Get(t.output), format |-> NameStr(Get(t.format))])

\* inferenceTargetsOption(parsed): the targets in order, or the first error thrown
inferenceTargetsOption(parsed) ==
    With([j \in 1..Len(parsed) |-> inferTarget(parsed[j])],
         LAMBDA res :
           LET bad == {j \in 1..Len(parsed) : ~res[j].ok}
           IN  IF bad # {}
               THEN Err(res[CHOOSE j \in bad : \A k \in bad : j <= k].err)
               ELSE Ok([j \in 1..Len(parsed) |-> res[j].v]))

\* the options of a command line: -o <path> and -f <format>
Opt(flag, value) == [flag |-> flag, value |-> value]
OutputValues == {Seg("book", "pdf"), Dir("foo"), Dir("")}
FormatValues == {Dir("pdf"), Dir("baz"), Dir("")}
OptChoices ==
    {Opt("-o", v) : v \in OutputValues} \cup {Opt("-f", v) : v \in FormatValues}
RECURSIVE CommandLinesOf(_)
CommandLinesOf(n) ==
    IF n = 0 THEN {<<>>}
    ELSE LET shorter == CommandLinesOf(n - 1)
         IN  shorter \cup {Append(l, o) : l \in shorter, o \in OptChoices}
\* "-o foo -o bar -f baz" and "-f foo -o bar -o baz -f piyo"
ExampleLine1 == <<Opt("-o", Dir("foo")), Opt("-o", Dir("bar")), Opt("-f", Dir("baz"))>>
ExampleLine2 == <<Opt("-f", Dir("foo")), Opt("-o", Dir("bar")), Opt("-o", Dir("baz")),
                  Opt("-f", Dir("piyo"))>>
\* "-o yuno.pdf -o yuno -f webpub"
ExampleLine3 == <<Opt("-o", Seg("yuno", "pdf")), Opt("-o", Dir("yuno")),
                  Opt("-f", Dir("webpub"))>>
CommandLines == CommandLinesOf(MaxArgs) \cup {ExampleLine1, ExampleLine2, ExampleLine3}

\* option.targets before the action has run, and when option.output is unset
Unparsed == [type |-> "unparsed"]
Undefined == [type |-> "undefined"]
NoFlags == [output |-> FALSE, format |-> FALSE, targets |-> Unparsed]

\* no command line is being parsed
CliIdle ==
    /\ argv = <<>>
    /\ consumed = 0
    /\ targets = <<>>
    /\ option = NoFlags

-----------------------------------------------------------------------------
(* The web publication build: files, URLs and manifests *)

\* the data of a file: plain text, or a publication manifest as JSON
TextData(text) == [text |-> text, manifest |-> None]
ManifestData(m) == [text |-> "", manifest |-> Some(m)]

\* fs.existsSync, fs.readFileSync, fs.writeFileSync on a disk of [path, data]
ExistsOn(d, p) == \E f \in d : f.path = p
ReadFrom(d, p) == (CHOOSE f \in d : f.path = p).data
WriteTo(d, p, data) == {f \in d : f.path # p} \cup {[path |-> p, data |-> data]}
\* the path q is the directory p or lies in it
Within(q, p) == Len(q) >= Len(p) /\ SubSeq(q, 1, Len(p)) = p
\* fs-extra remove(dir)
RemoveTree(d, dir) == {f \in d : ~Within(f.path, dir)}

\* a relative URL: the path it names, whether it is spelled with a leading
\* "./", whether it is percent-encoded, and its fragment
Url(path, dotted, encoded) ==
    [path |-> path, dotted |-> dotted, encoded |-> encoded, hash |-> ""]
Fragment(u, hash) == [u EXCEPT !.hash = hash]
PlainUrl(path) == Url(path, FALSE, FALSE)

\* encodeURI on a file name: only a name with a space changes
EscapedName(seg) == IF seg.stem = "my doc" THEN [seg EXCEPT !.stem = "my%20doc"] ELSE seg
EscapedPath(rel) == [rel EXCEPT !.segs = [i \in 1..Len(rel.segs) |-> EscapedName(rel.segs[i])]]

RECURSIVE JoinNames(_)
JoinNames(segs) ==
    IF segs = <<>> THEN ""
    ELSE IF Len(segs) = 1 THEN NameStr(segs[1])
    ELSE NameStr(Head(segs)) \o "/" \o JoinNames(Tail(segs))

\* the string of a relative path, as upath.relative returns it
RelString(rel) == (IF rel.up > 0 THEN "../" ELSE "") \o JoinNames(rel.segs)
\* the path a URL string is once upath has normalized it
UrlPath(u) == IF u.encoded THEN EscapedPath(u.path) ELSE u.path
\* the string of a URL
UrlString(u) ==
    (IF u.dotted THEN "./" ELSE "") \o RelString(UrlPath(u))
        \o (IF u.hash = "" THEN "" ELSE "#" \o u.hash)

decodeURI(u) == [u EXCEPT !.encoded = FALSE]
encodeURI(u) == [u EXCEPT !.encoded = TRUE]

\* util.pathEquals(url, path) of a URL string and a relative path: both are
\* resolved, so a leading "./" makes no difference
urlPathEquals(u, rel) == u.hash = "" /\ UrlPath(u) = rel

\* an item of readingOrder, resources or links: a URL string or a link object
StringItem(u) == [object |-> FALSE, url |-> u, encodingFormat |-> None]
LinkItem(u, encodingFormat) ==
    [object |-> TRUE, url |-> u, encodingFormat |-> encodingFormat]

\* a publication manifest; conforms tells whether its JSON passes the schema
Manifest(readingOrder, resources, links, conforms) ==
    [readingOrder |-> readingOrder, resources |-> resources, links |-> links,
     conforms |-> conforms]

\* transformPublicationManifest(entity, {url})
transformPublicationManifest(m, transformUrl(_)) ==
    LET tr(items) == [i \in 1..Len(items) |->
                        [items[i] EXCEPT !.url = transformUrl(items[i].url)]]
    IN  [m EXCEPT !.readingOrder = tr(m.readingOrder),
                  !.resources = tr(m.resources),
                  !.links = tr(m.links)]
decodePublicationManifest(m) == transformPublicationManifest(m, decodeURI)
encodePublicationManifest(m) == transformPublicationManifest(m, encodeURI)

\* the URL strings the model uses, in the order of the < of JavaScript strings
SortedUrlStrings ==
    <<"./", "./.vs-0.b.html", ".vs-0.b.html", ".vs-0.publication.json",
      "b.html", "ch1.html", "doc/index.html", "fig.svg", "fig.svg#a",
      "fig.svg#b", "index.html", "my doc.html", "my%20doc.html",
      "publication.json", "style.css">>
UrlRank(u) == CHOOSE i \in 1..Len(SortedUrlStrings) : SortedUrlStrings[i] = UrlString(u)

\* Array.prototype.sort with the comparator (a, b) => (a.url > b.url ? 1 : -1):
\* an item is put in front of the first item whose URL is not smaller, so
\* items with the same URL end up in the reverse of the order they came in
RECURSIVE sortManifestResources(_)
sortManifestResources(items) ==
    IF items = <<>> THEN <<>>
    ELSE LET sorted == sortManifestResources(SubSeq(items, 1, Len(items) - 1))
             x == items[Len(items)]
             smaller == {i \in 1..Len(sorted) : UrlRank(x.url) > UrlRank(sorted[i].url)}
             n == Cardinality(smaller)
         IN  SubSeq(sorted, 1, n) \o <<x>> \o SubSeq(sorted, n + 1, Len(sorted))

-----------------------------------------------------------------------------
(* copyWebPublicationAssets *)

\* relExportAliases: the aliases relative to the input directory, those whose
\* source starts with ".." left out
relExportAliases(exportAliases, input) ==
    SelectSeq([i \in 1..Len(exportAliases) |->
                 [source |-> Relative(input, exportAliases[i].source),
                  target |-> Relative(input, exportAliases[i].target)]],
              LAMBDA a : a.source.up = 0)

\* directories the glob passes over: dot directories other than .vs-*
HiddenDir(seg) == seg.pre = "" /\ seg.stem \in {".vivliostyle", ".git"}

\* the files the two globs find below the input directory: the manifest,
\* documents and style sheets, and the assets of copyAsset
globbedFiles(d, input, manifestPath) ==
    {Relative(input, f.path) :
       f \in {g \in d :
                /\ Within(g.path, input) /\ Len(g.path) > Len(input)
                /\ \A i \in (Len(input) + 1)..(Len(g.path) - 1) : ~HiddenDir(g.path[i])
                /\ \/ g.path = manifestPath
                   \/ Basename(g.path).ext \in {"html", "htm", "xhtml", "xht", "css"}
                   \/ Basename(g.path).ext \in {"png", "jpg", "svg"}}}

\* allFiles once the alias targets are deleted from it; the variant keeps them
allFilesWithTargets(d, input, manifestPath, aliases) ==
    globbedFiles(d, input, manifestPath)
allFilesOf(d, input, manifestPath, aliases) ==
    globbedFiles(d, input, manifestPath) \ {aliases[i].target : i \in 1..Len(aliases)}

\* relExportAliases.find(({ source }) => source === file)
findAlias(aliases, file) ==
    LET hits == {i \in 1..Len(aliases) : aliases[i].source = file}
    IN  IF hits = {} THEN None
        ELSE Some(aliases[CHOOSE i \in hits : \A j \in hits : i <= j])

\* alias?.target || file
relTargetOf(aliases, file) ==
    LET alias == findAlias(aliases, file)
    IN  IF IsSome(alias) /\ RelString(Get(alias).target) # "" THEN Get(alias).target
        ELSE file

\* rewriteAliasPath for one alias; the variant rewrites strings as well
rewriteAliasPathBoth(e, entry) ==
    IF urlPathEquals(e.url, entry.source)
    THEN [e EXCEPT !.url = PlainUrl(entry.target)]
    ELSE e
rewriteAliasPath(e, entry) ==
    IF ~e.object
    THEN IF urlPathEquals(e.url, entry.source)
         THEN StringItem(PlainUrl(entry.source))
         ELSE e
    ELSE IF urlPathEquals(e.url, entry.source)
         THEN [e EXCEPT !.url = PlainUrl(entry.target)]
         ELSE e

\* for (const entry of relExportAliases) { links, readingOrder, resources
\* .map(rewriteAliasPath) }
RECURSIVE rewriteAliases(_, _)
rewriteAliases(m, aliases) ==
    IF aliases = <<>> THEN m
    ELSE LET rw(items) == [i \in 1..Len(items) |-> rewriteAliasPath(items[i], Head(aliases))]
         IN  rewriteAliases([m EXCEPT !.links = rw(m.links),
                                       !.readingOrder = rw(m.readingOrder),
                                       !.resources = rw(m.resources)],
                            Tail(aliases))

\* the copied files listed in the resources field: those the manifest does
\* not name already, the manifest itself left out
listedResources(m, resources, outputDir, actualManifestPath) ==
    LET urls(items) == {UrlString(items[i].url) : i \in 1..Len(items)}
        preDefinedResources == urls(m.links) \cup urls(m.readingOrder) \cup urls(m.resources)
        added == SelectSeq(resources,
                           LAMBDA file :
                             ~(\/ RelString(file) \in preDefinedResources
                               \/ file = Relative(outputDir, actualManifestPath)))
    IN  m.resources \o [i \in 1..Len(added) |-> StringItem(PlainUrl(added[i]))]

\* the part of copyWebPublicationAssets after the copy loop: the manifest
\* read from actualManifestPath, rewritten, completed and sorted
finishedManifest(d, aliases, resources, outputDir, actualManifestPath) ==
    With(rewriteAliases(decodePublicationManifest(
                            Get(ReadFrom(d, actualManifestPath).manifest)),
                        aliases),
         LAMBDA m :
           [m EXCEPT !.resources =
              sortManifestResources(
                  listedResources(m, resources, outputDir, actualManifestPath))])

-----------------------------------------------------------------------------
(* The build of a web publication: the files and jobs of the model *)

OutDir == <<Dir("out")>>
StagedBHtml == Context \o <<Seg(".vs-0.b", "html")>>
StagedManifest == Context \o <<Seg(".vs-0.publication", "json")>>
UserManifest == Context \o <<Seg("publication", "json")>>
StyleCss == Context \o <<Seg("style", "css")>>
MyDocHtml == Context \o <<Seg("my doc", "html")>>
GitHtml == Context \o <<Dir(".git"), Seg("x", "html")>>
ElsewhereHtml == <<Dir("elsewhere"), Seg("x", "html")>>
OldHtml == OutDir \o <<Seg("old", "html")>>

FileOf(path, data) == [path |-> path, data |-> data]

\* b.html is staged at .vs-0.b.html and the manifest at .vs-0.publication.json,
\* each next to the user's own file of the canonical name; the third alias has
\* its source outside the workspace
StagingAliases ==
    <<[source |-> StagedBHtml, target |-> BHtml],
      [source |-> StagedManifest, target |-> UserManifest],
      [source |-> ElsewhereHtml, target |-> Context \o <<Seg("x", "html")>>]>>

\* the manifests of the model name the staged document in readingOrder: as a
\* link object (what writePublicationManifest produces), as a plain string, or
\* as a link object spelled with a leading "./"
StagedUrl == Url(Rel(<<Seg(".vs-0.b", "html")>>), FALSE, FALSE)
MyDocUrl == Url(Rel(<<Seg("my doc", "html")>>), FALSE, FALSE)
CssUrl == Url(Rel(<<Seg("style", "css")>>), FALSE, FALSE)
ManifestOfLinks ==
    Manifest(<<LinkItem(StagedUrl, Some("text/html"))>>,
             <<LinkItem(MyDocUrl, None)>>, <<>>, TRUE)
ManifestOfStrings ==
    Manifest(<<StringItem(StagedUrl)>>, <<StringItem(CssUrl)>>,
             <<StringItem(StagedUrl)>>, TRUE)
ManifestOfDotted ==
    Manifest(<<LinkItem([StagedUrl EXCEPT !.dotted = TRUE], None)>>, <<>>,
             <<LinkItem(StagedUrl, None)>>, TRUE)
\* a publication the schema refuses
ManifestRefused == [ManifestOfLinks EXCEPT !.conforms = FALSE]
StagedManifests == {ManifestOfLinks, ManifestOfStrings, ManifestOfDotted}

\* the files of the workspace, and an output directory left by an earlier build
WorkspaceFiles ==
    {FileOf(BHtml, TextData("the user's b.html")),
     FileOf(StagedBHtml, TextData("staged b.html")),
     FileOf(UserManifest, TextData("the user's publication.json")),
     FileOf(StyleCss, TextData("style")),
     FileOf(MyDocHtml, TextData("my doc")),
     FileOf(GitHtml, TextData("kept by git")),
     FileOf(OldHtml, TextData("left by an earlier build"))}

WebpubTarget == [format |-> "webpub", path |-> OutDir]

-----------------------------------------------------------------------------
(* retrieveWebbookEntry *)

\* what the server answers for a path: the Content-Type header and the body
Served(path, contentType, body) ==
    [path |-> path, contentType |-> contentType, body |-> body]

\* pathContains: upath.relative(rootUrl, url) does not start with ".."
pathContains(u) == u.path.up = 0

\* new URL(encodeURI(url), manifestUrl).href, the manifest lying at the root
fullUrlOf(u) == [encodeURI(u) EXCEPT !.dotted = FALSE]

\* the resources of the manifest that get a fetcher of their own
RECURSIVE addResourceFetchers(_, _)
addResourceFetchers(retriever, items) ==
    IF items = <<>> THEN retriever
    ELSE LET fullUrl == fullUrlOf(Head(items).url)
         IN  addResourceFetchers(
                 IF ~pathContains(fullUrl)
                       \/ \E i \in 1..Len(retriever) : retriever[i] = fullUrl
                 THEN retriever
                 ELSE Append(retriever, fullUrl),
                 Tail(items))

\* the documents of readingOrder that are loaded for their own resources
subDocuments(m, entryUrl) ==
    SelectSeq(m.readingOrder,
              LAMBDA v :
                /\ \/ (v.url.path.segs # <<>>
                         /\ Basename(v.url.path.segs).ext \in {"html", "htm"}
                         /\ v.url.hash = "")
                   \/ ~v.object
                   \/ v.encodingFormat = Some("text/html")
                /\ pathContains(fullUrlOf(v.url))
                /\ fullUrlOf(v.url) # entryUrl)

\* (v, k) => !retriever.has(k) && retriever.set(k, v)
RECURSIVE addMissing(_, _)
addMissing(retriever, urls) ==
    IF urls = <<>> THEN retriever
    ELSE addMissing(IF \E i \in 1..Len(retriever) : retriever[i] = Head(urls)
                    THEN retriever ELSE Append(retriever, Head(urls)),
                    Tail(urls))

\* the retriever map: the fetches of the entry document, of the resources
\* of the manifest, and of the other documents of readingOrder
retrieverOf(job) ==
    IF job.webManifest = None THEN job.fetcherMap
    ELSE LET m == Get(job.webManifest)
             withResources == addResourceFetchers(job.fetcherMap, m.resources)
         IN  IF subDocuments(m, Get(job.webbookEntryUrl)) = <<>> THEN withResources
             ELSE addMissing(withResources, job.subFetcherMap)

\* the fetches of Promise.allSettled
startedFetches(retriever) == {i \in 1..Len(retriever) : pathContains(retriever[i])}

\* the answer of the server to a fetch, if it has one
responseTo(site, u) ==
    LET hits == {i \in 1..Len(site) : site[i].path = u.path}
    IN  IF hits = {} THEN None ELSE Some(site[CHOOSE i \in hits : TRUE])

\* normalizeToLocalPath(urlString, mimeType)
normalizeToLocalPath(u, mimeType) ==
    LET relTarget == u.path
        joined == IF \/ relTarget.segs = <<>>
                     \/ (mimeType = Some("text/html")
                           /\ Basename(relTarget.segs).ext = "")
                  THEN [relTarget EXCEPT !.segs = @ \o <<Seg("index", "html")>>]
                  ELSE relTarget
    IN  decodeURI(Url(joined, FALSE, TRUE))

\* the manifest once the fetched resources it does not name are added to
\* its resources and these are sorted
mergeFetched(m, fetchedResources) ==
    LET urls(items) == {UrlString(items[i].url) : i \in 1..Len(items)}
        referencedContents == urls(m.readingOrder) \cup urls(m.resources)
    IN  [m EXCEPT !.resources =
           sortManifestResources(
               m.resources \o SelectSeq(fetchedResources,
                                        LAMBDA v : UrlString(v.url) \notin referencedContents))]

-----------------------------------------------------------------------------
(* The jobs of the model *)

Job(files, publication, manifestPath, entryUrl, exportAliases, webManifest, fetcherMap, subFetcherMap, site) ==
    [target |-> WebpubTarget, workspaceDir |-> Context, files |-> files,
     publication |-> publication, manifestPath |-> manifestPath,
     webbookEntryUrl |-> entryUrl, exportAliases |-> exportAliases,
     webManifest |-> webManifest, fetcherMap |-> fetcherMap,
     subFetcherMap |-> subFetcherMap, site |-> site]

\* the manifest is staged already, and the workspace is copied
CopyJobs ==
    {Job(WorkspaceFiles \cup {FileOf(StagedManifest, ManifestData(encodePublicationManifest(m)))},
         None, Some(StagedManifest), None, StagingAliases, None, <<>>, <<>>, <<>>) :
       m \in StagedManifests}

\* the manifest is written first, where a file may exist already
CompileJobs ==
    {Job(WorkspaceFiles \cup old, Some(m), Some(StagedManifest), None,
         StagingAliases, None, <<>>, <<>>, <<>>) :
       m \in {ManifestOfLinks, ManifestRefused},
       old \in {{}, {FileOf(StagedManifest, TextData("an earlier manifest"))}}}

\* neither a manifest nor a web book is given
NoEntryJobs ==
    {Job(files, None, None, None, <<>>, None, <<>>, <<>>, <<>>) :
       files \in {WorkspaceFiles, {FileOf(BHtml, TextData("the user's b.html"))}}}

\* the web book at https://example.com/
EntryUrl == Url(Rel(<<>>), FALSE, TRUE)
SiteUrl(segs) == Url(Rel(segs), FALSE, TRUE)
OtherHostUrl == Url(UpRel(1, <<Dir("cdn.example.net"), Seg("lib", "css")>>), FALSE, TRUE)
FigSvg == Rel(<<Seg("fig", "svg")>>)
Site ==
    <<Served(Rel(<<>>), Some("text/html"), "entry"),
      Served(Rel(<<Seg("style", "css")>>), Some("text/css"), "style"),
      Served(Rel(<<Dir("doc")>>), Some("text/html"), "doc"),
      Served(Rel(<<Dir("doc"), Seg("index", "html")>>),
             Some("application/xhtml+xml"), "doc index"),
      Served(FigSvg, None, "figure"),
      Served(Rel(<<Seg("ch1", "html")>>), Some("text/html"), "chapter"),
      Served(Rel(<<Seg("my doc", "html")>>), Some("text/html"), "my doc")>>

\* the entry document refers to /doc and to /doc/index.html; the linked
\* manifest names the entry document, and two fragments of one figure
WebbookOfTwoNames ==
    Job({FileOf(OldHtml, TextData("left by an earlier build"))}, None, None,
        Some(EntryUrl), <<>>,
        Some(Manifest(<<StringItem(Url(Rel(<<>>), TRUE, FALSE))>>,
                      <<StringItem(Fragment(PlainUrl(FigSvg), "b")),
                        StringItem(Fragment(PlainUrl(FigSvg), "a"))>>,
                      <<>>, TRUE)),
        <<EntryUrl, SiteUrl(<<Dir("doc")>>),
          SiteUrl(<<Dir("doc"), Seg("index", "html")>>)>>,
        <<>>, Site)

\* the linked manifest names the entry document and a chapter, and as
\* resources a file that does not exist and one with a space in its name;
\* the entry document refers to a style sheet of another host
WebbookOfChapters ==
    Job({}, None, None, Some(EntryUrl), <<>>,
        Some(Manifest(<<StringItem(Url(Rel(<<>>), TRUE, FALSE)),
                        LinkItem(PlainUrl(Rel(<<Seg("ch1", "html")>>)), None)>>,
                      <<StringItem(PlainUrl(Rel(<<Seg("b", "html")>>))),
                        StringItem(PlainUrl(Rel(<<Seg("my doc", "html")>>)))>>,
                      <<>>, TRUE)),
        <<EntryUrl, OtherHostUrl>>,
        <<SiteUrl(<<Seg("ch1", "html")>>), EntryUrl>>,
        Site)

\* no manifest is linked
WebbookUnlisted ==
    Job({}, None, None, Some(EntryUrl), <<>>, None,
        <<EntryUrl, SiteUrl(<<Seg("style", "css")>>)>>, <<>>, Site)

RetrieveJobs == {WebbookOfTwoNames, WebbookOfChapters, WebbookUnlisted}

Jobs == CopyJobs \cup CompileJobs \cup NoEntryJobs \cup RetrieveJobs

-----------------------------------------------------------------------------
(* writePublicationManifest and the steps of buildWebPublication *)

\* assertPubManifestSchema(manifest): true when it does not throw
assertPubManifestSchema(m) == m.conforms

DetailError(output) ==
    Error("Validation of publication manifest failed. Please check the schema",
          <<PathString(output)>>)

\* writePublicationManifest(output, options): the publication is validated in
\* its encoded form and then written; the variant writes it before
writePublicationManifestUnchecked(d, output, publication) ==
    With(encodePublicationManifest(publication), LAMBDA encodedManifest :
         [files |-> WriteTo(d, output, ManifestData(encodedManifest)),
          error |-> IF assertPubManifestSchema(encodedManifest) THEN None
                    ELSE Some(DetailError(output))])
writePublicationManifest(d, output, publication) ==
    With(encodePublicationManifest(publication), LAMBDA encodedManifest :
         IF assertPubManifestSchema(encodedManifest)
         THEN [files |-> WriteTo(d, output, ManifestData(encodedManifest)),
               error |-> None]
         ELSE [files |-> d, error |-> Some(DetailError(output))])

\* prepareWebPublicationDirectory({outputDir}): an existing directory is removed
prepareWebPublicationDirectory(d, outputDir) == RemoveTree(d, outputDir)

NoBuild == [phase |-> "idle"]

\* no build is under way
BuildIdle ==
    /\ disk = {}
    /\ build = NoBuild

NewBuild(job) ==
    [phase |-> IF job.publication # None THEN "compile" ELSE "start",
     job |-> job, outputDir |-> <<>>, allFiles |-> {}, resources |-> <<>>,
     actualManifestPath |-> <<>>, retriever |-> <<>>, pending |-> {},
     writing |-> {}, fetchedResources |-> <<>>, manifest |-> None,
     error |-> None]

-----------------------------------------------------------------------------
(* The state machine: a project is resolved twice while the clock advances *)

NotRun == [type |-> "none"]

Init ==
    /\ \E inp \in Inputs :
          /\ config = inp.config
          /\ options = inp.options
          /\ pkgJson = inp.pkgJson
    /\ fs = InitialFiles
    /\ now = 0
    /\ runs = [r \in Runs |-> NotRun]
    /\ touched = [r \in Runs |-> {}]
    /\ warned = [r \in Runs |-> <<>>]
    /\ CliIdle
    /\ BuildIdle

\* a call of resolveTaskConfig(config, options)
ResolveRun(r) ==
    /\ runs[r] = NotRun
    /\ r = "second" => runs["first"] # NotRun
    /\ With(resolveTaskConfig(config, options, pkgJson, fs, now), LAMBDA out :
           /\ runs' = [runs EXCEPT ![r] = IF out.res.ok THEN out.res.v
                                          ELSE out.res.err]
           /\ fs' = out.acc.files
           /\ touched' = [touched EXCEPT ![r] = out.acc.touched]
           /\ warned' = [warned EXCEPT ![r] = out.acc.warnings]
           /\ config' = [config EXCEPT !.entry = out.entry])
    /\ UNCHANGED <<options, now, pkgJson>>
    /\ UNCHANGED cliVars
    /\ UNCHANGED buildVars

\* a millisecond passes
Tick ==
    /\ now < MaxClock
    /\ now' = now + 1
    /\ UNCHANGED <<config, options, fs, runs, touched, warned, pkgJson>>
    /\ UNCHANGED cliVars
    /\ UNCHANGED buildVars

Next == (\E r \in Runs : ResolveRun(r)) \/ Tick

Spec == Init /\ [][Next]_vars

-----------------------------------------------------------------------------
(* The state machine of the command parser: commander hands each -o and -f *)
(* value to its processor in command-line order, then runs the action      *)

InitCli ==
    /\ argv \in CommandLines
    /\ consumed = 0
    /\ targets = <<>>
    /\ option = NoFlags
    /\ config = BaseConfig
    /\ options = ProjectOptions
    /\ pkgJson = None
    /\ fs = InitialFiles
    /\ now = 0
    /\ runs = [r \in Runs |-> NotRun]
    /\ touched = [r \in Runs |-> {}]
    /\ warned = [r \in Runs |-> <<>>]
    /\ BuildIdle

\* commander meets -o <path>: option.output = outputOptionProcessor(path)
OutputOption ==
    /\ consumed < Len(argv)
    /\ argv[consumed + 1].flag = "-o"
    /\ targets' = outputOptionProcessor(targets, argv[consumed + 1].value)
    /\ option' = [option EXCEPT !.output = TRUE]
    /\ consumed' = consumed + 1
    /\ UNCHANGED <<argv, config, options, fs, now, runs, touched, warned, pkgJson>>
    /\ UNCHANGED buildVars

\* commander meets -f <format>: option.format = formatOptionProcessor(format)
FormatOption ==
    /\ consumed < Len(argv)
    /\ argv[consumed + 1].flag = "-f"
    /\ targets' = formatOptionProcessor(targets, argv[consumed + 1].value)
    /\ option' = [option EXCEPT !.format = TRUE]
    /\ consumed' = consumed + 1
    /\ UNCHANGED <<argv, config, options, fs, now, runs, touched, warned, pkgJson>>
    /\ UNCHANGED buildVars

\* the command's action: option.targets = option.output &&
\* inferenceTargetsOption(option.output)
BuildAction ==
    /\ consumed = Len(argv)
    /\ option.targets = Unparsed
    /\ option' = [option EXCEPT !.targets =
                      IF option.output THEN inferenceTargetsOption(targets)
                      ELSE Undefined]
    /\ UNCHANGED <<argv, consumed, targets, config, options, fs, now, runs,
                   touched, warned, pkgJson>>
    /\ UNCHANGED buildVars

NextCli == OutputOption \/ FormatOption \/ BuildAction

SpecCli == InitCli /\ [][NextCli]_vars

-----------------------------------------------------------------------------
(* The state machine of a build: the manifest is written where the job asks *)
(* for it, then buildWebPublication runs, one step from await to await      *)

InitBuild ==
    /\ \E job \in Jobs :
          /\ disk = job.files
          /\ build = NewBuild(job)
    /\ CliIdle
    /\ config = BaseConfig
    /\ options = ProjectOptions
    /\ pkgJson = None
    /\ fs = InitialFiles
    /\ now = 0
    /\ runs = [r \in Runs |-> NotRun]
    /\ touched = [r \in Runs |-> {}]
    /\ warned = [r \in Runs |-> <<>>]

\* writePublicationManifest(manifestPath, ...)
WritePublicationManifest ==
    /\ build.phase = "compile"
    /\ With(writePublicationManifest(disk, Get(build.job.manifestPath),
                                     Get(build.job.publication)),
            LAMBDA written :
              /\ disk' = written.files
              /\ build' = IF written.error = None
                          THEN [build EXCEPT !.phase = "start"]
                          ELSE [build EXCEPT !.phase = "failed",
                                             !.error = written.error])
    /\ UNCHANGED resolveVars
    /\ UNCHANGED cliVars

\* buildWebPublication, a webpub target: outputDir = target.path;
\* await prepareWebPublicationDirectory({outputDir})
PrepareWebPublicationDirectory ==
    /\ build.phase = "start"
    /\ build.job.target.format = "webpub"
    /\ disk' = prepareWebPublicationDirectory(disk, build.job.target.path)
    /\ build' = [build EXCEPT !.phase = "prepared",
                              !.outputDir = build.job.target.path]
    /\ UNCHANGED resolveVars
    /\ UNCHANGED cliVars

\* throw new Error('No entry specified')
NoEntry ==
    /\ build.phase = "prepared"
    /\ build.job.manifestPath = None
    /\ build.job.webbookEntryUrl = None
    /\ build' = [build EXCEPT !.phase = "failed",
                              !.error = Some(Error("No entry specified", <<>>))]
    /\ UNCHANGED disk
    /\ UNCHANGED resolveVars
    /\ UNCHANGED cliVars

\* copyWebPublicationAssets up to the copy loop
StartCopy ==
    /\ build.phase = "prepared"
    /\ build.job.manifestPath # None
    /\ build' = [build EXCEPT
         !.phase = "copying",
         !.allFiles = allFilesOf(disk, build.job.workspaceDir,
                                 Get(build.job.manifestPath),
                                 relExportAliases(build.job.exportAliases,
                                                  build.job.workspaceDir)),
         !.actualManifestPath =
             Resolve(build.outputDir,
                     Relative(build.job.workspaceDir, Get(build.job.manifestPath)))]
    /\ UNCHANGED disk
    /\ UNCHANGED resolveVars
    /\ UNCHANGED cliVars

\* one round of the copy loop, for the file the enumeration gives next
CopyFile ==
    /\ build.phase = "copying"
    /\ \E file \in build.allFiles :
         LET input == build.job.workspaceDir
             aliases == relExportAliases(build.job.exportAliases, input)
             alias == findAlias(aliases, file)
             relTarget == relTargetOf(aliases, file)
             target == Resolve(build.outputDir, relTarget)
         IN  /\ disk' = WriteTo(disk, target, ReadFrom(disk, Resolve(input, file)))
             /\ build' = [build EXCEPT
                  !.allFiles = @ \ {file},
                  !.resources = Append(@, relTarget),
                  !.actualManifestPath =
                      IF /\ alias # None
                         /\ pathEquals(Resolve(input, Get(alias).source),
                                       Get(build.job.manifestPath))
                      THEN target ELSE @]
    /\ UNCHANGED resolveVars
    /\ UNCHANGED cliVars

\* copyWebPublicationAssets after the loop: the copied manifest is rewritten
FinishCopy ==
    /\ build.phase = "copying"
    /\ build.allFiles = {}
    /\ With(finishedManifest(disk,
                             relExportAliases(build.job.exportAliases,
                                              build.job.workspaceDir),
                             build.resources, build.outputDir,
                             build.actualManifestPath),
            LAMBDA m :
              /\ disk' = WriteTo(disk, build.actualManifestPath,
                                 ManifestData(encodePublicationManifest(m)))
              /\ build' = [build EXCEPT !.phase = "done", !.manifest = Some(m)])
    /\ UNCHANGED resolveVars
    /\ UNCHANGED cliVars

\* retrieveWebbookEntry up to Promise.allSettled
StartRetrieve ==
    /\ build.phase = "prepared"
    /\ build.job.manifestPath = None
    /\ build.job.webbookEntryUrl # None
    /\ With(retrieverOf(build.job), LAMBDA retriever :
              build' = [build EXCEPT !.phase = "fetching",
                                     !.retriever = retriever,
                                     !.pending = startedFetches(retriever)])
    /\ UNCHANGED disk
    /\ UNCHANGED resolveVars
    /\ UNCHANGED cliVars

\* a fetch settles: a rejected one is logged, a fulfilled one records its
\* resource and goes on to write its file
FetchSettles ==
    /\ build.phase = "fetching"
    /\ \E i \in build.pending :
         LET response == responseTo(build.job.site, build.retriever[i])
         IN  build' = IF response = None
                      THEN [build EXCEPT !.pending = @ \ {i}]
                      ELSE [build EXCEPT
                              !.pending = @ \ {i},
                              !.writing = @ \cup {i},
                              !.fetchedResources =
                                  Append(@, LinkItem(
                                      normalizeToLocalPath(build.retriever[i],
                                                           Get(response).contentType),
                                      Get(response).contentType))]
    /\ UNCHANGED disk
    /\ UNCHANGED resolveVars
    /\ UNCHANGED cliVars

\* await fs.promises.writeFile(target, buffer) of one fetch
FileWritten ==
    /\ build.phase = "fetching"
    /\ \E i \in build.writing :
         LET response == Get(responseTo(build.job.site, build.retriever[i]))
             relTarget == normalizeToLocalPath(build.retriever[i], response.contentType)
         IN  /\ disk' = WriteTo(disk, Resolve(build.outputDir, UrlPath(relTarget)),
                                TextData(response.body))
             /\ build' = [build EXCEPT !.writing = @ \ {i}]
    /\ UNCHANGED resolveVars
    /\ UNCHANGED cliVars

\* retrieveWebbookEntry after Promise.allSettled
FinishRetrieve ==
    /\ build.phase = "fetching"
    /\ build.pending = {}
    /\ build.writing = {}
    /\ build' = [build EXCEPT
         !.phase = "done",
         !.manifest = IF build.job.webManifest = None THEN None
                      ELSE Some(mergeFetched(Get(build.job.webManifest),
                                             build.fetchedResources))]
    /\ UNCHANGED disk
    /\ UNCHANGED resolveVars
    /\ UNCHANGED cliVars

NextBuild ==
    \/ WritePublicationManifest
    \/ PrepareWebPublicationDirectory
    \/ NoEntry
    \/ StartCopy
    \/ CopyFile
    \/ FinishCopy
    \/ StartRetrieve
    \/ FetchSettles
    \/ FileWritten
    \/ FinishRetrieve

SpecBuild == InitBuild /\ [][NextBuild]_vars

-----------------------------------------------------------------------------
(* Vocabulary of the properties *)

Returned(r) == runs[r].type = "plan"
Failed(r) == runs[r].type = "error"
ProjectMode == ~singleInputMode(options)

\* the file-sourced manuscript entries of a plan
IsFileManuscript(e) == IsSome(e.source) /\ Get(e.source).type = "file"
EntriesOf(r) == SeqToSet(runs[r].entries)
AliasesOf(r) == SeqToSet(runs[r].exportAliases)

-----------------------------------------------------------------------------
(* C1 *)

\* C1: in project mode no manuscript entry of a returned plan has a target
\* that is its own source file: an entry whose canonical target is its source
\* is staged at another, temporary path with an export alias to the canonical one.
C1_ManuscriptNeverTargetsItsSource ==
    \A r \in Runs :
        (Returned(r) /\ ProjectMode) =>
            \A e \in EntriesOf(r) :
                IsFileManuscript(e) =>
                    /\ ~pathEquals(Get(e.source).pathname, e.target)
                    /\ (getTargetPath(Get(e.source), runs[r])
                          = Get(e.source).pathname
                        => \E a \in AliasesOf(r) :
                              /\ a.source = e.target
                              /\ a.target = Get(e.source).pathname)

-----------------------------------------------------------------------------
(* C2 *)

\* the pairs of aliases the two runs registered for one canonical target
SameTargetPairs ==
    {p \in AliasesOf("first") \X AliasesOf("second") : p[1].target = p[2].target}

AliasTargets(r) == [k \in 1..Len(runs[r].exportAliases) |->
                      runs[r].exportAliases[k].target]

-----------------------------------------------------------------------------
(* C3 *)

\* C3: the theme index of a plan never holds two records of the same theme
\* (same type, name, location, source and specifier).
C3_ThemeIndexHasNoDuplicates ==
    \A r \in Runs :
        Returned(r) =>
            \A t, u \in runs[r].themeIndexes : SameTheme(t, u) => t = u

-----------------------------------------------------------------------------
(* C4 *)

\* a theme record without the identity of its object
ThemeKey(t) == [t EXCEPT !.oid = <<>>]
ThemeKeys(themes) == [j \in 1..Len(themes) |-> ThemeKey(themes[j])]

\* the entries a plan has in front of the declared ones
Synthesized(r) == Len(runs[r].entries) - Len(config.entry)

\* the theme override declared for the j-th entry of a plan, if any
DeclaredTheme(r, j) ==
    IF j > Synthesized(r) THEN config.entry[j - Synthesized(r)].theme ELSE None

\* the themes the front matter of the entry's markdown file declares, if any
MetadataTheme(e) ==
    LET src == OrOpt(e.source, e.template)
    IN  IF IsSome(src) /\ Get(src).type = "file"
           /\ Get(src).contentType = "text/markdown"
        THEN FrontMatterTheme(Get(src).pathname)
        ELSE None

ResolvedKeys(refs, context, r) ==
    ThemeKeys(parseThemes("expected", 0, refs, context, runs[r].workspaceDir,
                          runs[r].themesDir, fs).v)

\* explicit override, else metadata themes, else the default of the role
ThemesByPrecedence(r, j) ==
    LET e == runs[r].entries[j]
    IN  IF IsSome(DeclaredTheme(r, j))
        THEN ThemeKeys(e.themes) = ResolvedKeys(Get(DeclaredTheme(r, j)), Context, r)
        ELSE IF IsSome(MetadataTheme(e))
        THEN ThemeKeys(e.themes)
               = ResolvedKeys(Get(MetadataTheme(e)),
                              Dirname(Get(OrOpt(e.source, e.template)).pathname), r)
        ELSE e.themes = IF e.rel = Some("cover") THEN <<>> ELSE runs[r].rootThemes

\* C4 (as claimed): every entry of every plan gets its themes by the
\* precedence explicit override, metadata themes, default of its role.
C4_ThemesByPrecedenceInAllModes ==
    \A r \in Runs :
        Returned(r) => \A j \in 1..Len(runs[r].entries) : ThemesByPrecedence(r, j)

\* C4 (amended): that precedence holds for the entries of project mode; the
\* manuscript entry of single-input mode gets the root themes whatever its
\* metadata declares.
C4_ThemesByPrecedenceInProjectMode ==
    \A r \in Runs :
        Returned(r) =>
            \A j \in 1..Len(runs[r].entries) :
                IF ProjectMode THEN ThemesByPrecedence(r, j)
                ELSE runs[r].entries[j].themes = runs[r].rootThemes

\* a project-mode entry took its themes from its metadata although root
\* themes were configured
C4_Witness ==
    \E r \in Runs :
        /\ Returned(r) /\ ProjectMode /\ runs[r].rootThemes # <<>>
        /\ \E j \in 1..Len(runs[r].entries) :
              /\ DeclaredTheme(r, j) = None
              /\ IsSome(MetadataTheme(runs[r].entries[j]))
              /\ ThemeKeys(runs[r].entries[j].themes) # ThemeKeys(runs[r].rootThemes)

-----------------------------------------------------------------------------
(* C5 *)

\* C5: with no declared outputs the plan has exactly one output, a PDF at
\* <context>/<title>.pdf when a title is configured, else <context>/output.pdf.
C5_DefaultOutputIsOnePdf ==
    \A r \in Runs :
        (Returned(r) /\ config.output = None) =>
            /\ Len(runs[r].outputs) = 1
            /\ runs[r].outputs[1].format = "pdf"
            /\ runs[r].outputs[1].path
                 = Context \o <<Seg(IF IsSome(config.title) THEN Get(config.title)
                                    ELSE "output", "pdf")>>

\* a plan of a titled project without declared outputs
C5_Witness ==
    \E r \in Runs :
        /\ Returned(r) /\ config.output = None /\ config.title = Some("Book")
        /\ runs[r].outputs[1].path = Context \o <<Seg("Book", "pdf")>>

-----------------------------------------------------------------------------
(* C6 *)

OutputsTypeError == "TypeError: Cannot read properties of undefined (reading 'path')"

\* C6: every returned plan has at least one output, and a resolution never
\* fails because the declared output list is empty.
C6_AtLeastOneOutput ==
    \A r \in Runs :
        /\ Returned(r) => Len(runs[r].outputs) >= 1
        /\ Failed(r) => runs[r].text # OutputsTypeError

-----------------------------------------------------------------------------
(* C7 *)

\* the outputs of a plan, declared again as a project's output list
Redeclared(outputs) ==
    [k \in 1..Len(outputs) |-> [outputs[k] EXCEPT !.path = AbsP(outputs[k].path)]]

\* C7: normalizing the outputs of a plan again (same context, same
\* press-ready flag) gives the same output list.
C7_OutputNormalizerIdempotent ==
    \A r \in Runs :
        Returned(r) =>
            resolveOutputs([config EXCEPT !.output = Some(Redeclared(runs[r].outputs))],
                           runs[r].context)
              = runs[r].outputs

\* a plan with two outputs, one of which was declared with a relative path
C7_Witness ==
    \E r \in Runs :
        /\ Returned(r) /\ Len(runs[r].outputs) = 2 /\ IsSome(config.output)
        /\ \E k \in 1..2 : ~Get(config.output)[k].path.abs

-----------------------------------------------------------------------------
(* C8 *)

SingleMarkdown ==
    singleInputMode(options) /\ Get(options.input).format = "markdown"

\* C8: a single markdown input gives one manuscript entry staged at
\* <workspaceDir>/<relative dir>/<prefix><name>.html, a manifest to generate at
\* <workspaceDir>/<prefix><manifest name>, and exactly the two aliases that
\* lead from these temporary paths to <name>.html and to the manifest name.
C8_SingleMarkdownIsStaged ==
    \A r \in Runs :
        (Returned(r) /\ SingleMarkdown) =>
            LET plan == runs[r]
                written == plan.input.entry
                name == written.segs[Len(written.segs)]
                relDir == Relative(plan.entryContextDir, Dirname(Denoted(written)))
                dir == Resolve(plan.workspaceDir, relDir)
                staged == dir \o <<[pre |-> plan.temporaryFilePrefix,
                                     stem |-> name.stem, ext |-> "html"]>>
                manifest == plan.workspaceDir
                            \o <<[pre |-> plan.temporaryFilePrefix,
                                  stem |-> MANIFEST_FILENAME.stem,
                                  ext |-> MANIFEST_FILENAME.ext]>>
            IN  /\ Len(plan.entries) = 1
                /\ IsFileManuscript(plan.entries[1])
                /\ plan.entries[1].target = staged
                /\ plan.viewerInput.type = "webpub"
                /\ plan.viewerInput.needToGenerateManifest
                /\ plan.viewerInput.path = AbsP(manifest)
                /\ Len(plan.exportAliases) = 2
                /\ AliasesOf(r)
                     = {[source |-> staged,
                         target |-> dir \o <<Seg(name.stem, "html")>>],
                        [source |-> manifest,
                         target |-> plan.workspaceDir \o <<MANIFEST_FILENAME>>]}

\* a plan for a single markdown file that lies below the entry context
C8_Witness ==
    \E r \in Runs :
        /\ Returned(r) /\ SingleMarkdown
        /\ Len(runs[r].entries[1].target) > Len(runs[r].workspaceDir) + 1

-----------------------------------------------------------------------------
(* C9, C10: what has to resolve before an entry is looked at *)

EntryContextDir ==
    IF IsSome(config.entryContext) THEN Resolve(Context, Get(config.entryContext))
    ELSE Context

RefResolves(ref, context) ==
    \/ ref.kind \in {"uri", "pkg"}
    \/ /\ ref.kind = "path"
       /\ Resolve(context, ref.path) \in fs
       /\ Basename(Resolve(context, ref.path)).ext = "css"

ThemesResolve(refs) ==
    refs = None \/ \A j \in 1..Len(Get(refs)) : RefResolves(Get(refs)[j], Context)

IsLocalFile(d) ==
    IsSome(d.path) /\ Get(d.path).kind = "fs" /\ ~Get(d.path).p.abs

DeclaredFile(d) == Resolve(EntryContextDir, Get(d.path).p)

\* the input of a declared entry resolves: it has none, it is a URL, it is a
\* manuscript file, or it is a missing file of a contents or cover entry
InputResolves(d) ==
    \/ ~IsLocalFile(d)
    \/ DeclaredFile(d) \in fs /\ isManuscriptMediaType(mime(DeclaredFile(d)))
    \/ DeclaredFile(d) \notin fs /\ ~isArticleEntry(d)

LacksCoverImage(d) == isCoverEntry(d) /\ d.imageSrc = None /\ config.cover = None

EntryResolves(d) ==
    /\ InputResolves(d) /\ ThemesResolve(d.theme)
    /\ isCoverEntry(d) =>
          /\ ~LacksCoverImage(d)
          /\ Resolve(EntryContextDir,
                     IF IsSome(d.imageSrc) THEN Get(d.imageSrc)
                     ELSE Get(config.cover).src) \in fs

\* nothing that is resolved before the k-th declared entry fails
ReachesEntry(k) ==
    /\ ThemesResolve(config.theme)
    /\ \A i \in 1..(k - 1) : EntryResolves(config.entry[i])

-----------------------------------------------------------------------------
(* C9 *)

\* C9: a project with a cover entry that has no image, where the project
\* declares no cover either, is never resolved to a plan; when resolution
\* gets as far as that entry's image, the error tells to set 'cover'.
C9_CoverWithoutImageFails ==
    \A r \in Runs : \A k \in 1..Len(config.entry) :
        (runs[r] # NotRun /\ ProjectMode /\ LacksCoverImage(config.entry[k])) =>
            /\ Failed(r)
            /\ (ReachesEntry(k) /\ InputResolves(config.entry[k])
                  /\ ThemesResolve(config.entry[k].theme))
                 => runs[r].text = CoverImageNotSet

\* the cover entry without image came second, after a manuscript that resolved
C9_Witness ==
    \E r \in Runs :
        /\ Failed(r) /\ runs[r].text = CoverImageNotSet
        /\ Len(config.entry) = 2 /\ isArticleEntry(config.entry[1])
        /\ LacksCoverImage(config.entry[2])

-----------------------------------------------------------------------------
(* C10 *)

InvalidManuscriptType == "Invalid manuscript type ${contentType} detected: ${entry}"

\* the string of a path as the user wrote it
RECURSIVE JoinSegs(_)
JoinSegs(segs) ==
    IF segs = <<>> THEN ""
    ELSE IF Len(segs) = 1 THEN NameStr(segs[1])
    ELSE NameStr(Head(segs)) \o "/" \o JoinSegs(Tail(segs))
RECURSIVE Ups(_)
Ups(n) == IF n = 0 THEN "" ELSE "../" \o Ups(n - 1)
UserString(p) == IF p.abs THEN PathString(p.segs) ELSE Ups(p.up) \o JoinSegs(p.segs)

\* C10: a manuscript entry that is an existing local file of a media type
\* other than markdown, HTML or XHTML makes resolution fail with an error
\* whose message names the entry's path.
C10_InvalidTypeErrorNamesPath ==
    \A r \in Runs : \A k \in 1..Len(config.entry) :
        LET d == config.entry[k]
        IN  (/\ runs[r] # NotRun /\ ProjectMode /\ isArticleEntry(d)
             /\ IsLocalFile(d) /\ DeclaredFile(d) \in fs
             /\ ~isManuscriptMediaType(mime(DeclaredFile(d)))
             /\ ReachesEntry(k)) =>
                /\ Failed(r)
                /\ runs[r].text = InvalidManuscriptType
                /\ \E a \in SeqToSet(runs[r].args) :
                      a \in {UserString(Get(d.path).p), PathString(DeclaredFile(d))}

-----------------------------------------------------------------------------
(* C11 *)

\* the plan a run returned has the shape the project composer gives it: the
\* input is the publication manifest of the workspace, to be generated
ProjectPlan(r) ==
    /\ runs[r].input = [format |-> "pub-manifest",
                        entry |-> AbsP(runs[r].workspaceDir \o <<MANIFEST_FILENAME>>)]
    /\ runs[r].viewerInput.type = "webpub"
    /\ runs[r].viewerInput.needToGenerateManifest

\* the plan a run returned is composed from the single input: it records the
\* format of that input, and a markdown input is staged under the temporary prefix
SingleInputPlan(r) ==
    /\ IsSome(options.input)
    /\ runs[r].input.format = Get(options.input).format
    /\ ~ProjectPlan(r)
    /\ Get(options.input).format = "markdown" =>
          /\ Len(runs[r].entries) = 1
          /\ Basename(runs[r].entries[1].target).pre = runs[r].temporaryFilePrefix
          /\ Basename(runs[r].viewerInput.path.segs).pre = runs[r].temporaryFilePrefix

\* C11: a plan is composed in single-input mode whenever a single input is
\* given, with or without a project file, and in project mode only when no
\* single input is given.
C11_SingleInputAlwaysGivesSingleMode ==
    \A r \in Runs :
        Returned(r) =>
            IF IsSome(options.input) THEN SingleInputPlan(r) ELSE ProjectPlan(r)

-----------------------------------------------------------------------------
(* C12 *)

\* C12: in every returned plan the targets of the entries are pairwise distinct.
C12_TargetsPairwiseDistinct ==
    \A r \in Runs :
        Returned(r) =>
            \A i, j \in 1..Len(runs[r].entries) :
                i # j => runs[r].entries[i].target # runs[r].entries[j].target

-----------------------------------------------------------------------------
(* C13 *)

Declares(role) ==
    \E k \in 1..Len(config.entry) : config.entry[k].rel = Some(role)

\* a table of contents is configured and no declared entry is the contents
ContentsDue == IsSome(config.toc) /\ ~Declares("contents")

\* a cover with an HTML path is configured and no declared entry is the cover
CoverDue ==
    /\ IsSome(config.cover)
    /\ ~(Get(config.cover).hasHtmlPath /\ ~IsSome(Get(config.cover).htmlPath))
    /\ ~Declares("cover")

\* the parsed entry e comes from the declared entry d
ParsedFrom(e, d) ==
    /\ e.rel = d.rel
    /\ IsSome(d.title) => e.title = d.title
    /\ (isArticleEntry(d) /\ IsLocalFile(d)) =>
          IsSome(e.source) /\ Get(e.source).pathname = DeclaredFile(d)
    /\ (~isArticleEntry(d) /\ IsLocalFile(d)) =>
          IsSome(e.template) /\ Get(e.template).pathname = DeclaredFile(d)
    /\ (~isArticleEntry(d) /\ ~IsSome(d.path)) => e.template = None

Count(b) == IF b THEN 1 ELSE 0

\* C13: in project mode the entries of a plan are the synthesized cover (if
\* due), then the synthesized contents (if due), then the declared entries in
\* declaration order; a role that a declared entry has is never synthesized.
C13_SynthesizedEntriesPrepended ==
    \A r \in Runs :
        (Returned(r) /\ ProjectMode) =>
            LET es == runs[r].entries
                nc == Count(CoverDue)
                nt == Count(ContentsDue)
            IN  /\ Len(es) = nc + nt + Len(config.entry)
                /\ CoverDue => es[1].rel = Some("cover") /\ es[1].template = None
                /\ ContentsDue =>
                      es[nc + 1].rel = Some("contents") /\ es[nc + 1].template = None
                /\ \A k \in 1..Len(config.entry) :
                      ParsedFrom(es[nc + nt + k], config.entry[k])

\* a plan with a synthesized cover, a synthesized contents and two declared
\* entries; and one in which a declared cover keeps the cover from being added
C13_Witness ==
    \E r \in Runs :
        /\ Returned(r) /\ ProjectMode
        /\ CoverDue /\ ContentsDue /\ Len(config.entry) = 2
        /\ config.entry[1] # config.entry[2]

C13_WitnessDeclaredCover ==
    \E r \in Runs :
        /\ Returned(r) /\ ProjectMode /\ Declares("cover") /\ IsSome(config.cover)
        /\ IsSome(runs[r].cover) /\ IsSome(Get(runs[r].cover).htmlPath)

-----------------------------------------------------------------------------
(* C14 *)

\* the path of a URL ends in "/" or names an .html or .htm document
EndsInSlashOrHtml(url) ==
    \/ url.slash \/ url.segs = <<>>
    \/ Basename(url.segs).ext \in {"html", "htm"}

\* the descriptor of a returned plan is the one of its mode and format
DescriptorOfFormat(r) ==
    LET v == runs[r].viewerInput
    IN  IF ProjectMode
        THEN v = ViewerInput("webpub",
                             AbsP(runs[r].workspaceDir \o <<MANIFEST_FILENAME>>),
                             TRUE, <<>>)
        ELSE CASE Get(options.input).format = "markdown" ->
                    v.type = "webpub" /\ v.needToGenerateManifest
               [] Get(options.input).format = "webbook" ->
                    v.type = "webbook" /\ (IsHttpUrl(v.path) => EndsInSlashOrHtml(v.path))
               [] Get(options.input).format = "pub-manifest" ->
                    /\ v.type = "webpub" /\ ~v.needToGenerateManifest
                    /\ v.path = runs[r].input.entry
               [] Get(options.input).format = "epub" ->
                    v.type = "epub" /\ v.path = runs[r].input.entry
               [] OTHER -> v.type = "epub-opf" /\ v.path = runs[r].input.entry

\* the single input is a webbook given as an http(s) URL
WebbookUrlInput ==
    /\ singleInputMode(options)
    /\ Get(options.input).format = "webbook"
    /\ Get(options.input).entry.kind = "http"

\* C14: the viewer input is determined by mode and format: project mode gives
\* the manifest to generate at <workspaceDir>/<manifest name>; a single input
\* gives generate-manifest (markdown), the webbook URL (webbook), the existing
\* manifest (pub-manifest), the EPUB container (epub) or the OPF (epub-opf);
\* a webbook given as an http(s) URL is stored as that URL with a path that
\* ends in "/" or in .htm/.html.
C14_ViewerInputByModeAndFormat ==
    \A r \in Runs :
        /\ Returned(r) => DescriptorOfFormat(r)
        /\ (runs[r] # NotRun /\ WebbookUrlInput /\ ThemesResolve(config.theme)) =>
              /\ Returned(r)
              /\ IsHttpUrl(runs[r].viewerInput.path)

-----------------------------------------------------------------------------
(* C15 *)

WorkspaceDir ==
    Resolve(Context, OrElse(config.workspaceDir, Rel(<<Dir(".vivliostyle")>>)))

\* the file p lies below the directory d
IsUnder(p, d) == Len(p) > Len(d) /\ SubSeq(p, 1, Len(d)) = d

\* the places a resolution must leave alone: the files that were there, and
\* the canonical targets and declared outputs of the plan
Protected(r) ==
    InitialFiles
    \cup (IF Returned(r)
          THEN {a.target : a \in AliasesOf(r)}
               \cup {runs[r].outputs[k].path : k \in 1..Len(runs[r].outputs)}
          ELSE {})

\* C15: whether a resolution returns or throws, the files it creates are
\* temporary staging files below the workspace directory, and none of them is
\* a source file, a canonical target or a declared output.
C15_OnlyStagingFilesUnderWorkspace ==
    /\ fs = InitialFiles \cup UNION {touched[r] : r \in Runs}
    /\ \A r \in Runs :
          \A f \in touched[r] :
              /\ IsUnder(f, WorkspaceDir)
              /\ Basename(f).pre # ""
              /\ f \notin Protected(r)

\* the same, without the place of the staging files
C15_StagingFilesAreNew ==
    /\ fs = InitialFiles \cup UNION {touched[r] : r \in Runs}
    /\ \A r \in Runs :
          \A f \in touched[r] : Basename(f).pre # "" /\ f \notin Protected(r)

-----------------------------------------------------------------------------
(* C16 *)

\* the path of a contents or cover entry names a file that is not there
PathFileMissing(d) ==
    /\ ~isArticleEntry(d) /\ IsSome(d.path)
    /\ Resolve(EntryContextDir, AsPath(Get(d.path))) \notin fs

\* the same entry with output set to that path and no path
PathAsOutput(d) ==
    IF PathFileMissing(d) THEN [d EXCEPT !.output = d.path, !.path = None] ELSE d

\* a file that resolution requires is not there: the source of a manuscript,
\* or the image of a cover entry
RequiredFileMissing ==
    \E k \in 1..Len(config.entry) :
        LET d == config.entry[k]
        IN  \/ isArticleEntry(d) /\ IsLocalFile(d) /\ DeclaredFile(d) \notin fs
            \/ /\ isCoverEntry(d)
               /\ IsSome(d.imageSrc) \/ IsSome(config.cover)
               /\ Resolve(EntryContextDir,
                          IF IsSome(d.imageSrc) THEN Get(d.imageSrc)
                          ELSE Get(config.cover).src) \notin fs

\* what run r returns when it is made now on the project with its missing
\* paths read as outputs
ResolvesAsOutput(r) ==
    LET asOutput == [config EXCEPT
                       !.entry = [k \in 1..Len(config.entry) |->
                                    PathAsOutput(config.entry[k])]]
        alt == resolveTaskConfig(asOutput, options, pkgJson, fs, now)
        offset == Count(CoverDue) + Count(ContentsDue)
    IN  /\ runs'[r] = IF alt.res.ok THEN alt.res.v ELSE alt.res.err
        /\ fs' = alt.acc.files
        /\ runs'[r].type = "plan" =>
              /\ \A k \in 1..Len(config.entry) :
                    PathFileMissing(config.entry[k]) =>
                        /\ runs'[r].entries[offset + k].template = None
                        /\ runs'[r].entries[offset + k].target
                             = Resolve(WorkspaceDir, AsPath(Get(config.entry[k].path)))
              /\ Len(warned'[r])
                   = Cardinality({k \in 1..Len(config.entry) :
                                    PathFileMissing(config.entry[k])})
        /\ RequiredFileMissing => runs'[r].type = "error"

\* C16: a contents or cover entry whose path names a missing file is resolved
\* exactly as the same entry with output set to that path and no path (no
\* template, target <workspaceDir>/<path>), with a warning; a missing
\* manuscript source or cover image makes the resolution fail.
C16_MissingPathReadAsOutput ==
    [][\A r \in Runs :
         (ProjectMode /\ runs[r] = NotRun /\ runs'[r] # NotRun) => ResolvesAsOutput(r)]_vars

\* a plan was returned for a project with a contents or cover entry whose path
\* file is missing, and the warning was given
C16_Witness ==
    \E r \in Runs :
        /\ Returned(r) /\ ProjectMode /\ warned[r] # <<>>
        /\ \E k \in 1..Len(config.entry) :
              ~isArticleEntry(config.entry[k]) /\ config.entry[k].path = None
              /\ IsSome(config.entry[k].output)

-----------------------------------------------------------------------------
(* C17 *)

\* what a theme specifier is, read off the specifier alone
IsUriSpecifier(ref) == ref.kind = "uri"
IsLocalCss(ref) ==
    /\ ref.kind = "path"
    /\ Resolve(Context, ref.path) \in InitialFiles
    /\ Basename(Resolve(Context, ref.path)).ext = "css"
IsRegistrySpecifier(ref) == ref.kind = "pkg"
IsLocalDirectory(ref) == ref.kind = "path" /\ ~IsLocalCss(ref)
Unparsable(ref) == ref.kind = "bad"

\* the theme record the specifier must resolve to
ClassifiedAs(ref, t, plan) ==
    IF IsUriSpecifier(ref)
    THEN t.type = "uri" /\ t.location = UrlLoc(ref.spec)
    ELSE IF IsLocalCss(ref)
    THEN /\ t.type = "file"
         /\ t.source = Resolve(Context, ref.path)
         /\ t.location = FsLoc(Resolve(plan.workspaceDir, ref.path))
    ELSE /\ t.type = "package"
         /\ IsRegistrySpecifier(ref) \/ IsLocalDirectory(ref)
         /\ t.location.at = "fs"
         /\ SubSeq(t.location.path, 1, Len(t.location.path) - 1)
              = plan.themesDir \o <<Dir("node_modules")>>

\* C17: a root theme specifier is classified by the first rule that matches:
\* a valid absolute URI gives a uri theme, else an existing local .css file
\* gives a file theme placed at the same relative path under the workspace,
\* else the specifier is read as a package.  A specifier that cannot be parsed,
\* or that names neither a registry package nor a local directory, makes the
\* resolution fail, so every package theme of a returned plan comes from the
\* registry or from a local directory.
C17_ThemeClassifiedByFirstMatch ==
    \A r \in Runs :
        (runs[r] # NotRun /\ IsSome(config.theme)) =>
            LET refs == Get(config.theme)
                rejected == {j \in 1..Len(refs) :
                               /\ ~IsUriSpecifier(refs[j]) /\ ~IsLocalCss(refs[j])
                               /\ ~IsRegistrySpecifier(refs[j])
                               /\ ~IsLocalDirectory(refs[j])}
            IN  /\ rejected # {} =>
                     /\ Failed(r)
                     /\ \/ \E j \in rejected :
                              /\ Unparsable(refs[j])
                              /\ runs[r].text = "Invalid package name: ${specifier}"
                        \/ \E j \in rejected :
                              /\ ~Unparsable(refs[j])
                              /\ runs[r].text
                                   = "This package specifier is not allowed: ${specifier}"
                /\ Returned(r) =>
                     /\ Len(runs[r].rootThemes) = Len(refs)
                     /\ \A j \in 1..Len(refs) :
                            ClassifiedAs(refs[j], runs[r].rootThemes[j], runs[r])

\* a plan whose root themes are a uri theme, a file theme and a package theme
\* taken from a local directory, in the order of their specifiers
C17_Witness ==
    \E r \in Runs :
        /\ Returned(r) /\ config.theme = Some(<<UriRef, ThemeCssRef, MyThemeRef>>)
        /\ runs[r].rootThemes[1].type = "uri"
        /\ runs[r].rootThemes[2].type = "file"
        /\ runs[r].rootThemes[3].type = "package"
        /\ runs[r].rootThemes[3].name = "my-theme"

\* a resolution that failed on a remote specifier outside the registry
C17_WitnessRejected ==
    \E r \in Runs :
        /\ Failed(r) /\ config.theme = Some(<<PkgRef("@org/theme"), GitRef>>)
        /\ runs[r].text = "This package specifier is not allowed: ${specifier}"

-----------------------------------------------------------------------------
(* C18 *)

\* the options the parser has processed so far, in command-line order
Processed == SubSeq(argv, 1, consumed)

\* the options a target was built from, given the flag that arrived first
OptionsOf(t, first) ==
    LET o == IF IsSome(t.output) THEN <<Opt("-o", Get(t.output))>> ELSE <<>>
        f == IF IsSome(t.format) THEN <<Opt("-f", Get(t.format))>> ELSE <<>>
    IN  IF first = "-o" THEN o \o f ELSE f \o o
HasField(t, flag) == IF flag = "-o" THEN IsSome(t.output) ELSE IsSome(t.format)

RECURSIVE Flat(_, _, _)
Flat(ts, first, i) ==
    IF i > Len(ts) THEN <<>>
    ELSE OptionsOf(ts[i], first[i]) \o Flat(ts, first, i + 1)

\* C18: the -o/-f processors pair the options in command-line order: the
\* targets, read in order, hold exactly the values processed so far (none
\* dropped, none overwritten, none out of order); a value started a new target
\* only when the last target already had that field; and the two command lines
\* of the source comment give the targets the comment states.
C18_OptionsPairedInOrder ==
    /\ \E first \in [1..Len(targets) -> {"-o", "-f"}] :
          /\ Flat(targets, first, 1) = Processed
          /\ \A i \in 1..(Len(targets) - 1) :
                HasField(targets[i], Head(OptionsOf(targets[i + 1], first[i + 1])).flag)
    /\ \A i \in 1..Len(targets) : IsSome(targets[i].output) \/ IsSome(targets[i].format)
    /\ (argv = ExampleLine1 /\ consumed = Len(argv)) =>
          targets = <<Target(Some(Dir("foo")), None),
                      Target(Some(Dir("bar")), Some(Dir("baz")))>>
    /\ (argv = ExampleLine2 /\ consumed = Len(argv)) =>
          targets = <<Target(Some(Dir("bar")), Some(Dir("foo"))),
                      Target(Some(Dir("baz")), Some(Dir("piyo")))>>

\* "-f foo -o bar -o baz -f piyo" has been processed into two full targets
C18_Witness ==
    /\ argv = ExampleLine2 /\ consumed = 4
    /\ Len(targets) = 2
    /\ targets[1] = Target(Some(Dir("bar")), Some(Dir("foo")))

-----------------------------------------------------------------------------
(* C19 *)

\* the action has called inferenceTargetsOption on the parsed targets
InferenceCalled == option.targets \notin {Unparsed, Undefined}

\* the parsed targets the claim speaks of
FormatWithoutOutput == {j \in 1..Len(targets) :
                          IsSome(targets[j].format) /\ ~IsSome(targets[j].output)}
OutputMissing == {j \in 1..Len(targets) : Falsy(targets[j].output)}
UnknownFormat == {j \in 1..Len(targets) :
                    /\ ~Falsy(targets[j].format)
                    /\ NameStr(Get(targets[j].format)) \notin availableOutputFormat}

\* C19: inferenceTargetsOption returns one {output, format} per parsed target,
\* in the same order, with the format inferred from the output name when none
\* was given (an empty format string counts as none).  It fails when a target
\* has a format but no output, and when a given format is not an available
\* output format: with 'Unknown format' unless a missing output is reported
\* instead.  So every returned target has an output and an available format,
\* and a command line with neither fault is not refused.
C19_InferredTargetsComplete ==
    InferenceCalled =>
        /\ FormatWithoutOutput # {} =>
              /\ ~option.targets.ok
              /\ option.targets.err.type = "error"
        /\ UnknownFormat # {} =>
              /\ ~option.targets.ok
              /\ OutputMissing = {} =>
                    option.targets.err.text = "Unknown format: ${format}"
        /\ (OutputMissing = {} /\ UnknownFormat = {}) => option.targets.ok
        /\ option.targets.ok =>
              /\ Len(option.targets.v) = Len(targets)
              /\ \A j \in 1..Len(targets) :
                    /\ option.targets.v[j].output = Get(targets[j].output)
                    /\ NameStr(option.targets.v[j].output) # ""
                    /\ option.targets.v[j].format \in availableOutputFormat
                    /\ option.targets.v[j].format
                         = IF Falsy(targets[j].format)
                           THEN inferenceFormatByName(Get(targets[j].output))
                           ELSE NameStr(Get(targets[j].format))

\* "-o yuno.pdf -o yuno -f webpub": the first format is inferred from the
\* name, the second is the one given
C19_Witness ==
    /\ InferenceCalled /\ argv = ExampleLine3
    /\ option.targets.ok
    /\ option.targets.v = <<[output |-> Seg("yuno", "pdf"), format |-> "pdf"],
                            [output |-> Dir("yuno"), format |-> "webpub"]>>

\* "-o foo -o bar -f baz" is refused: baz is no output format
C19_WitnessUnknownFormat ==
    /\ InferenceCalled /\ argv = ExampleLine1
    /\ ~option.targets.ok
    /\ option.targets.err.text = "Unknown format: ${format}"

\* a command line is refused because a format has no output to go with
C19_WitnessNoOutput ==
    /\ InferenceCalled /\ FormatWithoutOutput # {} /\ UnknownFormat = {}
    /\ ~option.targets.ok

-----------------------------------------------------------------------------
(* C20 *)

\* C20: in every returned plan, of either mode, the theme index holds every
\* root theme and every theme of the theme list of every entry.
C20_ThemeIndexCoversThemes ==
    \A r \in Runs :
        Returned(r) =>
            /\ SeqToSet(runs[r].rootThemes) \subseteq runs[r].themeIndexes
            /\ \A k \in 1..Len(runs[r].entries) :
                  SeqToSet(runs[r].entries[k].themes) \subseteq runs[r].themeIndexes

\* a project plan with a root theme and an entry whose own theme is no root
\* theme, both in the index
C20_Witness ==
    \E r \in Runs :
        /\ Returned(r) /\ ProjectMode
        /\ runs[r].rootThemes # <<>>
        /\ \E k \in 1..Len(runs[r].entries) :
              \E t \in SeqToSet(runs[r].entries[k].themes) :
                  /\ t \notin SeqToSet(runs[r].rootThemes)
                  /\ t \in runs[r].themeIndexes

\* a single-input plan whose entry has a theme (a copy of the root theme
\* list: the single manuscript is read without its front-matter themes)
C20_WitnessSingleInput ==
    \E r \in Runs :
        /\ Returned(r) /\ ~ProjectMode
        /\ \E k \in 1..Len(runs[r].entries) :
              \E t \in SeqToSet(runs[r].entries[k].themes) :
                  t \in runs[r].themeIndexes

-----------------------------------------------------------------------------
(* C21 *)

HasFileTemplate(e) == IsSome(e.template) /\ Get(e.template).type = "file"

\* the target a declared contents or cover entry d with file template asks for:
\* its output under the workspace directory, else the place of its template
\* under the workspace directory
RequestedTarget(d, e, plan) ==
    IF IsSome(d.output)
    THEN Resolve(plan.workspaceDir, AsPath(Get(d.output)))
    ELSE Resolve(plan.workspaceDir,
                 ReplaceMdRel(Relative(plan.entryContextDir, Get(e.template).pathname)))

\* the declared contents and cover entries whose requested target is their
\* template file
CollidingTemplates(r) ==
    LET es == runs[r].entries
        off == Len(es) - Len(config.entry)
    IN  {k \in 1..Len(config.entry) :
           /\ ~isArticleEntry(config.entry[k])
           /\ HasFileTemplate(es[off + k])
           /\ RequestedTarget(config.entry[k], es[off + k], runs[r])
                = Get(es[off + k].template).pathname}

\* C21: a contents or cover entry whose file template is also its requested
\* target is staged at the sibling <dir>/<temporaryFilePrefix><basename> of
\* that target: the entry's target is the sibling, its template is still the
\* original file, and one alias {source: sibling, target: requested target} is
\* registered for it.  A contents or cover entry whose file template differs
\* from its target keeps its target and gets no alias.
C21_CollidingTemplateStagedOnce ==
    \A r \in Runs :
        (Returned(r) /\ ProjectMode) =>
            LET es == runs[r].entries
                off == Len(es) - Len(config.entry)
                colliding == CollidingTemplates(r)
            IN  /\ \A k \in 1..Len(config.entry) :
                      (~isArticleEntry(config.entry[k]) /\ HasFileTemplate(es[off + k])) =>
                          LET e == es[off + k]
                              want == RequestedTarget(config.entry[k], e, runs[r])
                              temp == Dirname(want)
                                        \o <<WithPrefix(runs[r].temporaryFilePrefix,
                                                        Basename(want))>>
                          IN  IF k \in colliding
                              THEN /\ e.target = temp
                                   /\ IsLocalFile(config.entry[k]) =>
                                         Get(e.template).pathname
                                           = DeclaredFile(config.entry[k])
                                   /\ [source |-> temp, target |-> want] \in AliasesOf(r)
                                   /\ temp \in fs
                              ELSE /\ e.target = want
                                   /\ \A a \in AliasesOf(r) : a.source # e.target
                \* one alias per colliding entry and no other alias
                /\ Len(runs[r].exportAliases) = Cardinality(colliding)

\* a plan whose cover entry names b.html as its template while the workspace
\* is the project directory: the entry is staged beside b.html
C21_Witness ==
    \E r \in Runs :
        /\ Returned(r) /\ ProjectMode /\ CollidingTemplates(r) # {}
        /\ Len(runs[r].exportAliases) = 1
        /\ runs[r].exportAliases[1].target = BHtml

\* a plan whose contents entry has a file template that is not its target
C21_WitnessNoCollision ==
    \E r \in Runs :
        /\ Returned(r) /\ ProjectMode /\ CollidingTemplates(r) = {}
        /\ \E k \in 1..Len(runs[r].entries) :
              /\ runs[r].entries[k].rel = Some("contents")
              /\ HasFileTemplate(runs[r].entries[k])
        /\ runs[r].exportAliases = <<>>

-----------------------------------------------------------------------------
(* C26 *)

\* the one declared entry as the plan holds it: the last entry of the plan
OnlyDeclaredEntry(r) == runs[r].entries[Len(runs[r].entries)]

\* C26: in project mode the title of the plan is the configured title, else
\* the name of the package metadata; with neither, it is the title of the one
\* declared entry when exactly one entry is declared and it has a title, and
\* else the file name of the first output.  Synthesized contents and cover
\* entries do not count as declared.
C26_ProjectTitleByPrecedence ==
    \A r \in Runs :
        (Returned(r) /\ ProjectMode) =>
            runs[r].title =
                IF IsSome(config.title) THEN config.title
                ELSE IF IsSome(pkgJson) /\ IsSome(Get(pkgJson).name)
                THEN Get(pkgJson).name
                ELSE IF Len(config.entry) = 1 /\ Truthy(OnlyDeclaredEntry(r).title)
                THEN OnlyDeclaredEntry(r).title
                ELSE Some(NameStr(Basename(runs[r].outputs[1].path)))

\* a plan that takes the title of its one declared entry although a contents
\* entry was synthesized in front of it
C26_Witness ==
    \E r \in Runs :
        /\ Returned(r) /\ ProjectMode
        /\ config.title = None /\ pkgJson = None
        /\ Len(config.entry) = 1 /\ Len(runs[r].entries) > 1
        /\ Truthy(OnlyDeclaredEntry(r).title)
        /\ runs[r].title = OnlyDeclaredEntry(r).title

\* a plan titled after its first output, and one titled after the package
C26_WitnessOutputName ==
    \E r \in Runs :
        /\ Returned(r) /\ ProjectMode
        /\ config.title = None /\ pkgJson = None /\ Len(config.entry) = 2
        /\ runs[r].title = Some(NameStr(Basename(runs[r].outputs[1].path)))

C26_WitnessPackageName ==
    \E r \in Runs :
        /\ Returned(r) /\ ProjectMode /\ config.title = None
        /\ runs[r].title = Some("pkg")

-----------------------------------------------------------------------------
(* C27 *)

SingleInput == Get(options.input).entry
IsUriInput == SingleInput.kind = "http"

\* the single input as a file: its path against the entry-context directory
SingleInputFile == Resolve(EntryContextDir, AsPath(SingleInput))

\* C27: in single-input mode an input that is a valid URI becomes the input
\* entry of the plan as it was written, with no look at the filesystem; an
\* input that is no URI becomes its absolute path against the entry-context
\* directory, and the resolution fails when no file is there.
C27_UriVerbatimPathChecked ==
    \A r \in Runs :
        (runs[r] # NotRun /\ ~ProjectMode /\ ThemesResolve(config.theme)) =>
            IF IsUriInput
            THEN /\ Returned(r)
                 /\ runs[r].input.entry = SingleInput.p
            ELSE /\ Returned(r) => runs[r].input.entry = AbsP(SingleInputFile)
                 /\ SingleInputFile \notin InitialFiles => Failed(r)

\* the two halves of C27, each on its own
C27_UriInputAccepted ==
    \A r \in Runs :
        (runs[r] # NotRun /\ ~ProjectMode /\ ThemesResolve(config.theme)
           /\ IsUriInput) => Returned(r)
C27_MissingFileRefused ==
    \A r \in Runs :
        (runs[r] # NotRun /\ ~ProjectMode /\ ~IsUriInput
           /\ SingleInputFile \notin InitialFiles) => Failed(r)

-----------------------------------------------------------------------------
(* C28 *)

\* C28: no step changes the project description: after a resolution, whether
\* it returned a plan or failed, every declared entry has the path and the
\* output it had before.
C28_ConfigLeftUnchanged ==
    [][/\ Len(config'.entry) = Len(config.entry)
       /\ \A k \in 1..Len(config.entry) :
             /\ config'.entry[k].path = config.entry[k].path
             /\ config'.entry[k].output = config.entry[k].output]_vars

\* C28, the consequence: two resolutions of the same project object take the
\* same branches, so they log the same warnings
C28_SameBranchesTwice ==
    (\A r \in Runs : runs[r] # NotRun) => warned["first"] = warned["second"]

-----------------------------------------------------------------------------
(* C30 *)

\* a declared contents or cover entry whose path is an http(s) URL
HasUrlTemplate(d) ==
    ~isArticleEntry(d) /\ IsSome(d.path) /\ Get(d.path).kind = "http"

\* the uri target rule: the URL path under the root directory, index.html
\* appended unless the path names an .htm or .html document
UriTarget(rootDir, segs) ==
    IF segs # <<>> /\ Basename(segs).ext \in {"html", "htm"}
    THEN rootDir \o segs
    ELSE rootDir \o segs \o <<Seg("index", "html")>>

\* the parsed entry e is the entry d resolved from its URL
ResolvedFromUrl(e, d, plan) ==
    /\ IsSome(e.template)
    /\ Get(e.template).type = "uri"
    /\ Get(e.template).href.segs = Get(d.path).p.segs
    /\ Get(e.template).rootDir = plan.workspaceDir \o <<Dir(Get(d.path).host)>>
    /\ IsSome(d.output) \/
         e.target = UriTarget(plan.workspaceDir \o <<Dir(Get(d.path).host)>>,
                              Get(d.path).p.segs)

\* C30: a resolution that returns a plan resolves every contents or cover
\* entry whose path is an http(s) URL to a template of kind uri (the URL, with
\* root directory <workspaceDir>/<host>) and a target by the uri target rule;
\* the URL is not read as an output path.
C30_UrlTemplateResolvedAsUri ==
    [][\A r \in Runs :
          (ProjectMode /\ runs[r] = NotRun /\ runs'[r].type = "plan") =>
              \A k \in 1..Len(config.entry) :
                  HasUrlTemplate(config.entry[k]) =>
                      /\ config'.entry[k].path = config.entry[k].path
                      /\ ResolvedFromUrl(
                            runs'[r].entries[Len(runs'[r].entries)
                                               - Len(config.entry) + k],
                            config.entry[k], runs'[r])]_vars

\* what the model finds instead: the URL has become the output of the entry
C30_UrlReadAsOutput ==
    \E r \in Runs :
        /\ Returned(r) /\ ProjectMode
        /\ \E k \in 1..Len(config.entry) :
              /\ ~isArticleEntry(config.entry[k])
              /\ config.entry[k].path = None
              /\ IsSome(config.entry[k].output)
              /\ Get(config.entry[k].output).kind = "http"
              /\ runs[r].entries[Len(runs[r].entries) - Len(config.entry) + k].template
                   = None

-----------------------------------------------------------------------------
(* Properties of the build *)

\* copyWebPublicationAssets has returned
Copied == build.phase = "done" /\ build.job.manifestPath # None
\* the aliases whose source lies inside the input directory
InsideAliases == relExportAliases(build.job.exportAliases, build.job.workspaceDir)
\* the manifest written in the output directory, as a reader decodes it
WrittenManifest ==
    decodePublicationManifest(Get(ReadFrom(disk, build.actualManifestPath).manifest))
\* the manifest the copy started from
StagedManifestOf(job) ==
    decodePublicationManifest(Get(ReadFrom(job.files, Get(job.manifestPath)).manifest))
ItemsOf(m) == m.readingOrder \o m.resources \o m.links
NamesSource(item) ==
    \E k \in 1..Len(InsideAliases) : urlPathEquals(item.url, InsideAliases[k].source)

\* C22: after copyWebPublicationAssets, whatever alias has its source inside
\* the input directory, no URL of readingOrder, resources or links of the
\* written manifest equals the alias source, be the item a plain string or a
\* link object: each such URL of the staged manifest is now the alias target.
C22_AliasSourcesRewritten ==
    (Copied /\ build.job.publication = None) =>
        /\ \A i \in 1..Len(ItemsOf(WrittenManifest)) :
              ~NamesSource(ItemsOf(WrittenManifest)[i])
        /\ \A k \in 1..Len(InsideAliases) :
              \A i \in 1..Len(StagedManifestOf(build.job).readingOrder) :
                  urlPathEquals(StagedManifestOf(build.job).readingOrder[i].url,
                                InsideAliases[k].source)
                      => urlPathEquals(WrittenManifest.readingOrder[i].url,
                                       InsideAliases[k].target)

\* what holds instead: the link objects are rewritten, the plain strings
\* that name an alias source are kept
C22_LinkObjectsRewritten ==
    (Copied /\ build.job.publication = None) =>
        \A i \in 1..Len(ItemsOf(WrittenManifest)) :
            NamesSource(ItemsOf(WrittenManifest)[i])
                => ~ItemsOf(WrittenManifest)[i].object
C22_StringKept ==
    /\ Copied
    /\ \E i \in 1..Len(WrittenManifest.readingOrder) :
          /\ ~WrittenManifest.readingOrder[i].object
          /\ NamesSource(WrittenManifest.readingOrder[i])

\* the copy loop of copyWebPublicationAssets is running or has finished
Copying == build.phase \in {"copying", "done"} /\ build.job.manifestPath # None
InInput(rel) == Resolve(build.job.workspaceDir, rel)
InOutput(rel) == Resolve(build.outputDir, rel)

\* C23: in copyWebPublicationAssets, whatever alias has its source inside the
\* input directory, the file written at <outputDir>/<alias target> is a copy
\* of the staged file at the alias source, never of the file that exists at
\* the alias target in the input directory, and no file is written at
\* <outputDir>/<alias source>, in whatever order the files are enumerated
\* (the copied manifest is rewritten in place once the loop has ended).
C23_AliasTargetCopiedFromStaged ==
    Copying =>
        \A k \in 1..Len(InsideAliases) :
            LET alias == InsideAliases[k]
            IN  /\ ~ExistsOn(disk, InOutput(alias.source))
                /\ build.phase = "done" => ExistsOn(disk, InOutput(alias.target))
                /\ ExistsOn(disk, InOutput(alias.target)) =>
                      /\ (build.phase = "copying"
                            \/ InOutput(alias.target) # build.actualManifestPath)
                           => ReadFrom(disk, InOutput(alias.target))
                                = ReadFrom(disk, InInput(alias.source))
                      /\ ExistsOn(disk, InInput(alias.target))
                           => ReadFrom(disk, InOutput(alias.target))
                                # ReadFrom(disk, InInput(alias.target))

\* b.html exists in the input directory next to its staged file, and the
\* output has the staged one under the name b.html
C23_Witness ==
    /\ Copied
    /\ ExistsOn(disk, BHtml) /\ ExistsOn(disk, StagedBHtml)
    /\ ReadFrom(disk, BHtml) # ReadFrom(disk, StagedBHtml)
    /\ ReadFrom(disk, OutDir \o <<Seg("b", "html")>>) = ReadFrom(disk, StagedBHtml)
\* the staged file is enumerated first, and it is enumerated last
C23_WitnessFirst ==
    /\ C23_Witness
    /\ build.resources[1] = Rel(<<Seg("b", "html")>>)
C23_WitnessLast ==
    /\ C23_Witness
    /\ build.resources[Len(build.resources)] = Rel(<<Seg("b", "html")>>)

\* writePublicationManifest was called, for the file Output
Compiled == build.job.publication # None /\ build.phase # "compile"
Output == Get(build.job.manifestPath)
Refused ==
    /\ build.phase = "failed"
    /\ build.error = Some(DetailError(Output))
\* the output file is as the job found it: absent, or with the data it had
OutputUnchanged ==
    /\ ExistsOn(disk, Output) <=> ExistsOn(build.job.files, Output)
    /\ ExistsOn(disk, Output)
         => ReadFrom(disk, Output) = ReadFrom(build.job.files, Output)

\* C24: writePublicationManifest writes the manifest file only after the
\* encoded manifest has passed the schema validation: when the validation
\* fails it throws a DetailError and the output file is left as it was,
\* neither created nor overwritten.
C24_ManifestWrittenOnlyIfValid ==
    Compiled =>
        IF assertPubManifestSchema(encodePublicationManifest(Get(build.job.publication)))
        THEN build.phase # "failed"
        ELSE Refused /\ OutputUnchanged /\ disk = build.job.files

\* a refused manifest, where a file exists at the output path and where none does
C24_Witness ==
    /\ Compiled /\ Refused
    /\ ExistsOn(build.job.files, Output)
    /\ ReadFrom(disk, Output) = TextData("an earlier manifest")
C24_WitnessNotCreated ==
    /\ Compiled /\ Refused
    /\ ~ExistsOn(build.job.files, Output)
    /\ ~ExistsOn(disk, Output)
\* an accepted manifest is written in its encoded form
C24_WitnessWritten ==
    /\ Compiled /\ build.phase = "start"
    /\ ExistsOn(build.job.files, Output)
    /\ ReadFrom(disk, Output)
         = ManifestData(encodePublicationManifest(Get(build.job.publication)))

\* buildWebPublication has thrown 'No entry specified'
NoEntrySpecified ==
    /\ build.phase = "failed"
    /\ build.error = Some(Error("No entry specified", <<>>))
\* the files the job found in the output directory of the target
FoundInOutput == {f \in build.job.files : Within(f.path, build.job.target.path)}

\* C29: when buildWebPublication fails with 'No entry specified', neither a
\* manifest path nor a web book entry being configured, an existing webpub
\* output directory at target.path is left untouched: what it held is neither
\* removed nor replaced.
C29_OutputDirUntouchedOnNoEntry ==
    NoEntrySpecified =>
        {f \in disk : Within(f.path, build.job.target.path)} = FoundInOutput

\* what the model finds instead: the directory is emptied before the throw
C29_OutputDirEmptied ==
    /\ NoEntrySpecified
    /\ FoundInOutput # {}
    /\ {f \in disk : Within(f.path, build.job.target.path)} = {}

\* retrieveWebbookEntry has returned
Retrieved == build.phase = "done" /\ build.job.webbookEntryUrl # None
\* the resources recorded when the fetches complete in the order they were
\* started in
FetchedInStartOrder ==
    LET fulfilled == SelectSeq(build.retriever,
                               LAMBDA u : pathContains(u)
                                            /\ responseTo(build.job.site, u) # None)
    IN  [i \in 1..Len(fulfilled) |->
           LinkItem(normalizeToLocalPath(
                        fulfilled[i],
                        Get(responseTo(build.job.site, fulfilled[i])).contentType),
                    Get(responseTo(build.job.site, fulfilled[i])).contentType)]
SavedPaths(d) == {f.path : f \in {g \in d : Within(g.path, build.outputDir)}}

\* C25: the manifest retrieveWebbookEntry returns, its resources and their
\* order, and the set of files saved under outputDir do not depend on the
\* order the concurrent fetches complete in, also when two fetched URLs
\* normalize to one local path: they are those of the fetches completing in
\* the order they were started in.
C25_ResultIndependentOfCompletionOrder ==
    (Retrieved /\ build.job.webManifest # None) =>
        /\ build.manifest
             = Some(mergeFetched(Get(build.job.webManifest), FetchedInStartOrder))
        /\ SavedPaths(disk)
             = {InOutput(UrlPath(FetchedInStartOrder[i].url)) :
                  i \in 1..Len(FetchedInStartOrder)}

\* what holds instead: the saved paths are the same in every order, and so is
\* the manifest when no two resources of one local path differ
C25_SavedPathsIndependent ==
    Retrieved =>
        SavedPaths(disk)
          = {InOutput(UrlPath(FetchedInStartOrder[i].url)) :
               i \in 1..Len(FetchedInStartOrder)}
C25_IndependentUnlessSamePathDiffers ==
    (Retrieved /\ build.job.webManifest # None) =>
        \/ build.manifest
             = Some(mergeFetched(Get(build.job.webManifest), FetchedInStartOrder))
        \/ \E i, j \in 1..Len(build.fetchedResources) :
              /\ build.fetchedResources[i].url = build.fetchedResources[j].url
              /\ build.fetchedResources[i] # build.fetchedResources[j]
\* the fragments of one figure give two equal resources: their order shows nowhere
C25_FragmentsGiveEqualResources ==
    /\ Retrieved
    /\ \E i, j \in 1..Len(build.fetchedResources) :
          /\ i # j
          /\ build.fetchedResources[i] = build.fetchedResources[j]
          /\ UrlString(build.fetchedResources[i].url) = "fig.svg"

=============================================================================
